---- MODULE Spec2Model ----
(***************************************************************************)
(* avrocurio: Avro serialization with Confluent wire framing over a schema *)
(* registry client.                                                        *)
(*                                                                         *)
(*   SpecWire      the wire-format codec alone (encode / decode)           *)
(*   Spec          AvroSerializer over a registry client whose answers are *)
(*                 arbitrary (the mocked ApicurioClient of the unit tests) *)
(*   SpecInMemory  AvroSerializer over InMemoryClient and its tables       *)
(*   SpecRegistry  InMemoryClient alone, every operation                   *)
(*                                                                         *)
(* A serializer call is one step per await of a registry-client call.      *)
(***************************************************************************)
EXTENDS Integers, Sequences, FiniteSets, TLC

VARIABLES
    wire,                   \* codec under test: arguments, message, decoded result
    client,                 \* which registry client the serializer holds
    cache_schemas,          \* AvroSerializer.cache_schemas
    parsed_schema_cache,    \* AvroSerializer._parsed_schema_cache : id -> parsed schema
    pc,                     \* position of the serializer call in flight
    call,                   \* arguments and locals of the serializer call in flight
    calls,                  \* registry-client calls made by the call in flight, in order
    result,                 \* what the last finished serializer call returned or raised
    schemas,                \* InMemoryClient._schemas : global_id -> schema dict
    artifacts,              \* InMemoryClient._artifacts : coordinate -> versions
    schema_to_global_id,    \* InMemoryClient._schema_to_global_id : normalized -> id
    reg_result,             \* what the last finished registry operation returned or raised
    tasks,                  \* the concurrent register_schema calls: position and locals
    _lock,                  \* InMemoryClient._lock : the tasks that hold it
    assigned,               \* history: every document each id has named so far
    _schema_cache,          \* ApicurioClient._schema_cache : global_id -> schema
    fetches,                \* the get_schema_by_global_id calls on ApicurioClient in flight
    http_requests,          \* how many HTTP requests ApicurioClient has sent for schemas
    scan                    \* ApicurioClient.find_artifact_by_fingerprint in flight

vars == <<wire, client, cache_schemas, parsed_schema_cache, pc, call, calls,
          result, schemas, artifacts, schema_to_global_id, reg_result, tasks, _lock,
          assigned, _schema_cache, fetches, http_requests, scan>>

serializer_vars == <<cache_schemas, parsed_schema_cache, pc, call, calls, result>>
registry_vars == <<schemas, artifacts, schema_to_global_id, reg_result>>
task_vars == <<tasks, _lock>>
apicurio_vars == <<_schema_cache, fetches, http_requests, scan>>

(***************************************************************************)
(* Bounds of the model.                                                    *)
(***************************************************************************)
MaxPayloadLen == 2      \* longest payload handed to the codec on its own
MaxRawLen == 6          \* longest raw message handed to decode on its own

(***************************************************************************)
(* Bytes and unsigned 32-bit identifiers.  TLC's integers are signed       *)
(* 32-bit, so an identifier on the wire is kept as two 16-bit limbs        *)
(* (hi, lo) standing for hi * 2^16 + lo.                                   *)
(***************************************************************************)
U32(hi, lo) == [hi |-> hi, lo |-> lo]

ToU32(n) == U32(n \div 65536, n % 65536)

FromU32(u) == u.hi * 65536 + u.lo

RECURSIVE SeqsUpTo(_, _)
SeqsUpTo(S, n) ==
    IF n = 0 THEN {<<>>}
    ELSE LET shorter == SeqsUpTo(S, n - 1)
         IN shorter \cup {Append(s, b) : s \in {t \in shorter : Len(t) = n - 1}, b \in S}

Tail5(message) == SubSeq(message, 6, Len(message))

(***************************************************************************)
(* ConfluentWireFormat: magic byte 0x00, 4-byte big-endian schema id,      *)
(* payload.                                                                *)
(***************************************************************************)
MAGIC_BYTE == 0

HEADER_SIZE == 5

NoU32 == U32(0, 0)

WireOk(id, payload) == [ok |-> TRUE, schema_id |-> id, payload |-> payload, error |-> "none"]

WireError(kind) == [ok |-> FALSE, schema_id |-> NoU32, payload |-> <<>>, error |-> kind]

\* a faulty encode: the id bytes least significant first
ConfluentWireFormat_encode_little_endian(schema_id, payload) ==
    <<MAGIC_BYTE, schema_id.lo % 256, schema_id.lo \div 256,
      schema_id.hi % 256, schema_id.hi \div 256>> \o payload

ConfluentWireFormat_encode(schema_id, payload) ==
    <<MAGIC_BYTE, schema_id.hi \div 256, schema_id.hi % 256,
      schema_id.lo \div 256, schema_id.lo % 256>> \o payload

\* a faulty decode: neither the length nor the magic byte is checked
ConfluentWireFormat_decode_no_checks(message) ==
    IF Len(message) < HEADER_SIZE
    THEN WireOk(NoU32, <<>>)
    ELSE WireOk(U32(message[2] * 256 + message[3], message[4] * 256 + message[5]),
                Tail5(message))

ConfluentWireFormat_decode(message) ==
    IF Len(message) < HEADER_SIZE THEN WireError("InvalidWireFormatError")
    ELSE IF message[1] # MAGIC_BYTE THEN WireError("InvalidWireFormatError")
    ELSE WireOk(U32(message[2] * 256 + message[3], message[4] * 256 + message[5]),
                Tail5(message))

(***************************************************************************)
(* The codec on its own: encode then decode of chosen arguments, and       *)
(* decode of arbitrary raw messages.                                       *)
(***************************************************************************)
WireBytes == {0, 1, 255}

WireIds == {U32(0, 0), U32(0, 1), U32(0, 256), U32(1, 0), U32(48, 57),
            U32(32768, 0), U32(65535, 65535)}

NoWire == [phase |-> "unused", schema_id |-> NoU32, payload |-> <<>>,
           message |-> <<>>, decoded |-> WireError("none")]

WireInit ==
    \/ \E id \in WireIds, p \in SeqsUpTo(WireBytes, MaxPayloadLen) :
          wire = [phase |-> "args", schema_id |-> id, payload |-> p,
                  message |-> <<>>, decoded |-> WireError("none")]
    \/ \E m \in SeqsUpTo(WireBytes, MaxRawLen) :
          wire = [phase |-> "raw", schema_id |-> NoU32, payload |-> <<>>,
                  message |-> m, decoded |-> WireError("none")]

WireEncode ==
    /\ wire.phase = "args"
    /\ wire' = [wire EXCEPT !.phase = "encoded",
                            !.message = ConfluentWireFormat_encode(wire.schema_id, wire.payload)]

WireDecode ==
    /\ wire.phase \in {"encoded", "raw"}
    /\ wire' = [wire EXCEPT !.phase = IF wire.phase = "encoded" THEN "roundtrip" ELSE "decoded",
                            !.decoded = ConfluentWireFormat_decode(wire.message)]

(***************************************************************************)
(* Values, model classes and schema documents.                             *)
(*                                                                         *)
(* A value of an Avro primitive is tagged with its Python type.  An object *)
(* is an instance of an AvroModel class: its class and its field mapping   *)
(* (asdict()).  A schema document is the dict form of an Avro record       *)
(* schema; a schema text is a JSON text of it: the document together with  *)
(* the order of its keys and whether it carries whitespace.                *)
(***************************************************************************)
IntV(n) == [t |-> "int", i |-> n, s |-> <<>>]

StrV(str) == [t |-> "string", i |-> 0, s |-> str]

Field(name, type) == [name |-> name, type |-> type]

RecordDoc(name, fields) == [type |-> "record", name |-> name, fields |-> fields]

NoDoc == [type |-> "none", name |-> "", fields |-> <<>>]

DocR == RecordDoc("R", <<Field("id", "int"), Field("name", "string")>>)

DocU == RecordDoc("U", <<Field("id", "int")>>)

DocS == RecordDoc("U", <<Field("id", "string")>>)

Classes == {"R", "U"}

\* AvroModel.avro_schema_to_python(): the schema document of a model class
avro_schema_to_python(cls) == IF cls = "R" THEN DocR ELSE DocU

ObjR1 == [cls |-> "R", data |-> [id |-> IntV(7), name |-> StrV(<<120>>)]]

ObjR2 == [cls |-> "R", data |-> [id |-> IntV(-1), name |-> StrV(<<>>)]]

ObjU1 == [cls |-> "U", data |-> [id |-> IntV(64)]]

Objs == {ObjR1, ObjR2, ObjU1}

NoObj == [cls |-> "none", data |-> <<>>]

\* AvroModel.asdict()
asdict(obj) == obj.data

(***************************************************************************)
(* JSON texts.  json.loads forgets key order and whitespace; json.dumps    *)
(* writes the keys in the order asked for, with or without whitespace.     *)
(***************************************************************************)
KeysSorted == <<"fields", "name", "type">>

KeysDeclared == <<"type", "name", "fields">>

KeysVariant == <<"name", "type", "fields">>

Text(doc, order, ws) == [valid |-> TRUE, doc |-> doc, order |-> order, ws |-> ws]

InvalidText == [valid |-> FALSE, doc |-> NoDoc, order |-> <<>>, ws |-> FALSE]

NoText == [valid |-> FALSE, doc |-> NoDoc, order |-> <<>>, ws |-> TRUE]

json_loads(text) == [ok |-> text.valid, doc |-> text.doc]

\* json.dumps(d): insertion order of the keys, ", " and ": " separators
json_dumps(doc) == Text(doc, KeysDeclared, TRUE)

\* json.dumps(d, sort_keys=True, separators=(",", ":"))
json_dumps_sorted(doc) == Text(doc, KeysSorted, FALSE)

\* AvroModel.avro_schema(): the JSON text of the class's schema
avro_schema(cls) == json_dumps(avro_schema_to_python(cls))

(***************************************************************************)
(* The Avro binary codec (fastavro), as far as records of int and string   *)
(* fields go: an int is a zig-zag varint, a string its length as a zig-zag *)
(* varint and then its bytes, a record its fields in schema order.         *)
(***************************************************************************)
ZigZag(n) == IF n >= 0 THEN 2 * n ELSE -2 * n - 1

UnZigZag(z) == IF z % 2 = 0 THEN z \div 2 ELSE -((z + 1) \div 2)

RECURSIVE Varint(_)
Varint(z) == IF z < 128 THEN <<z>> ELSE <<128 + (z % 128)>> \o Varint(z \div 128)

WriteOk(bytes) == [ok |-> TRUE, bytes |-> bytes]

WriteFail == [ok |-> FALSE, bytes |-> <<>>]

\* one datum against one primitive type
write_data(type, val) ==
    IF type = "int" /\ val.t = "int" THEN WriteOk(Varint(ZigZag(val.i)))
    ELSE IF type = "string" /\ val.t = "string"
         THEN WriteOk(Varint(ZigZag(Len(val.s))) \o val.s)
    ELSE WriteFail

RECURSIVE write_record(_, _, _)
write_record(fields, datum, k) ==
    IF k > Len(fields) THEN WriteOk(<<>>)
    ELSE IF fields[k].name \notin DOMAIN datum THEN WriteFail
    ELSE LET head == write_data(fields[k].type, datum[fields[k].name])
             rest == write_record(fields, datum, k + 1)
         IN IF head.ok /\ rest.ok THEN WriteOk(head.bytes \o rest.bytes) ELSE WriteFail

\* fastavro.schemaless_writer(buffer, schema, datum): the bytes, or a failure
schemaless_writer(schema, datum) ==
    IF schema.type # "record" THEN WriteFail ELSE write_record(schema.fields, datum, 1)

\* the index of the last byte of the varint starting at pos, 0 if it never ends
VarintEnd(bytes, pos) ==
    LET ends == {e \in pos..Len(bytes) : bytes[e] < 128}
    IN IF ends = {} THEN 0 ELSE CHOOSE e \in ends : \A f \in ends : e <= f

RECURSIVE VarintValue(_, _, _)
VarintValue(bytes, pos, last) ==
    IF pos > last THEN 0
    ELSE (bytes[pos] % 128) + 128 * VarintValue(bytes, pos + 1, last)

ReadOk(val, next) == [ok |-> TRUE, val |-> val, next |-> next]

ReadFail == [ok |-> FALSE, val |-> IntV(0), next |-> 0]

read_long(bytes, pos) ==
    LET last == VarintEnd(bytes, pos)
    IN IF last = 0 THEN ReadFail
       ELSE ReadOk(IntV(UnZigZag(VarintValue(bytes, pos, last))), last + 1)

read_data(type, bytes, pos) ==
    IF type = "int" THEN read_long(bytes, pos)
    ELSE LET n == read_long(bytes, pos)
         IN IF ~n.ok \/ n.val.i < 0 \/ n.next + n.val.i - 1 > Len(bytes) THEN ReadFail
            ELSE ReadOk(StrV(SubSeq(bytes, n.next, n.next + n.val.i - 1)), n.next + n.val.i)

DatumOk(datum) == [ok |-> TRUE, datum |-> datum]

DatumFail == [ok |-> FALSE, datum |-> <<>>]

\* the record read field by field in the writer's order
RECURSIVE read_record(_, _, _, _)
read_record(fields, bytes, k, pos) ==
    IF k > Len(fields) THEN DatumOk(<<>>)
    ELSE LET head == read_data(fields[k].type, bytes, pos)
         IN IF ~head.ok THEN DatumFail
            ELSE LET rest == read_record(fields, bytes, k + 1, head.next)
                 IN IF ~rest.ok THEN DatumFail
                    ELSE DatumOk((fields[k].name :> head.val) @@ rest.datum)

FieldNames(fields) == {fields[k].name : k \in 1..Len(fields)}

FieldType(fields, name) == (CHOOSE k \in 1..Len(fields) : fields[k].name = name)

\* Avro schema resolution: the writer's datum seen through the reader's schema
resolve(writer_schema, reader_schema, datum) ==
    IF reader_schema.type # "record" \/ writer_schema.name # reader_schema.name
    THEN DatumFail
    ELSE IF \E k \in 1..Len(reader_schema.fields) :
               \/ reader_schema.fields[k].name \notin FieldNames(writer_schema.fields)
               \/ writer_schema.fields[FieldType(writer_schema.fields,
                                                 reader_schema.fields[k].name)].type
                    # reader_schema.fields[k].type
         THEN DatumFail
         ELSE DatumOk([n \in FieldNames(reader_schema.fields) |-> datum[n]])

\* fastavro.schemaless_reader(buffer, writer_schema): no projection
schemaless_reader(bytes, writer_schema) ==
    IF writer_schema.type # "record" THEN DatumFail
    ELSE read_record(writer_schema.fields, bytes, 1, 1)

\* fastavro.schemaless_reader(buffer, writer_schema=..., reader_schema=...)
schemaless_reader_projected(bytes, writer_schema, reader_schema) ==
    LET written == schemaless_reader(bytes, writer_schema)
    IN IF ~written.ok THEN DatumFail
       ELSE resolve(writer_schema, reader_schema, written.datum)

\* target_class.parse_obj(obj_dict): the instance, or a failure when a field of
\* the class is missing or of the wrong type
parse_obj(cls, datum) ==
    LET fields == avro_schema_to_python(cls).fields
    IN IF \A k \in 1..Len(fields) :
              /\ fields[k].name \in DOMAIN datum
              /\ datum[fields[k].name].t = fields[k].type
       THEN [ok |-> TRUE, obj |-> [cls |-> cls,
                                   data |-> [n \in FieldNames(fields) |-> datum[n]]]]
       ELSE [ok |-> FALSE, obj |-> NoObj]

(***************************************************************************)
(* Registry-side values: identifiers, coordinates, the documents a client  *)
(* hands to the serializer, errors.                                        *)
(***************************************************************************)
NoId == -1               \* Python's None for an Optional[int]

NoCoord == <<"", "">>    \* Python's None for an Optional[tuple[str, str]]

Coords == {<<"default", "user">>, <<"other", "user">>}

\* a registry document is a bare schema dict or a {"schema": text} wrapper
Bare(doc) == [shape |-> "bare", doc |-> doc, text |-> NoText]

Wrapped(text) == [shape |-> "wrapped", doc |-> NoDoc, text |-> text]

NoRegDoc == [shape |-> "none", doc |-> NoDoc, text |-> NoText]

Err(type, msg, id, cause) == [type |-> type, msg |-> msg, id |-> id, cause |-> cause]

NoError == Err("none", "", NoId, "none")

(***************************************************************************)
(* InMemoryClient: three tables.  _artifacts is a dict iterated in         *)
(* insertion order, so it is kept as the sequence of its entries.          *)
(***************************************************************************)
EmptyMap == [x \in {} |-> 0]

SchemaVersion(version, global_id, schema_content) ==
    [version |-> version, global_id |-> global_id, schema_content |-> schema_content]

HasArtifact(arts, key) == \E i \in 1..Len(arts) : arts[i].key = key

ArtifactIndex(arts, key) == CHOOSE i \in 1..Len(arts) : arts[i].key = key

VersionsOf(arts, key) ==
    IF HasArtifact(arts, key) THEN arts[ArtifactIndex(arts, key)].versions ELSE <<>>

\* self._artifacts[key] = [] when absent, then self._artifacts[key].append(version)
AppendVersion(arts, key, global_id, schema_content) ==
    LET v == SchemaVersion(Len(VersionsOf(arts, key)) + 1, global_id, schema_content)
    IN IF HasArtifact(arts, key)
       THEN [arts EXCEPT ![ArtifactIndex(arts, key)].versions = Append(@, v)]
       ELSE Append(arts, [key |-> key, versions |-> <<v>>])

Tables(s, a, n) == [schemas |-> s, artifacts |-> a, schema_to_global_id |-> n]

CurrentTables == Tables(schemas, artifacts, schema_to_global_id)

EmptyTables == Tables(EmptyMap, <<>>, EmptyMap)

\* what a registry operation does: its outcome and the tables it leaves
RegReturn(op, id, coord, doc, tables) ==
    [op |-> op, ok |-> TRUE, id |-> id, coord |-> coord, doc |-> doc,
     error |-> "none", tables |-> tables]

RegRaise(op, error, tables) ==
    [op |-> op, ok |-> FALSE, id |-> NoId, coord |-> NoCoord, doc |-> NoRegDoc,
     error |-> error, tables |-> tables]

\* a canonical form that sorts the keys and keeps the whitespace of the text
_normalize_schema_keeps_whitespace(schema_content) ==
    [ok |-> json_loads(schema_content).ok,
     text |-> Text(json_loads(schema_content).doc, KeysSorted, schema_content.ws)]

\* a comparison of the texts as they were given
_normalize_schema_raw(schema_content) ==
    [ok |-> json_loads(schema_content).ok, text |-> schema_content]

_normalize_schema(schema_content) ==
    LET loaded == json_loads(schema_content)
    IN [ok |-> loaded.ok, text |-> json_dumps_sorted(loaded.doc)]

SetMax(S) == CHOOSE m \in S : \A x \in S : x <= m

\* an allocator that counts the schemas instead of taking the largest id
_get_next_global_id_counts(t) == Cardinality(DOMAIN t.schemas) + 1

_get_next_global_id(t) ==
    IF DOMAIN t.schemas = {} THEN 1 ELSE SetMax(DOMAIN t.schemas) + 1

InMemory_get_schema_by_global_id(t, global_id) ==
    IF global_id \notin DOMAIN t.schemas
    THEN RegRaise("get_schema_by_global_id", "SchemaNotFoundError", t)
    ELSE RegReturn("get_schema_by_global_id", global_id, NoCoord,
                   Bare(t.schemas[global_id]), t)

\* a lookup that takes the first version of the coordinate for the latest
InMemory_get_latest_schema_first(t, key) ==
    LET versions == VersionsOf(t.artifacts, key)
    IN IF ~HasArtifact(t.artifacts, key) \/ versions = <<>>
       THEN RegRaise("get_latest_schema", "SchemaNotFoundError", t)
       ELSE RegReturn("get_latest_schema", versions[1].global_id, key,
                      Bare(t.schemas[versions[1].global_id]), t)

InMemory_get_latest_schema(t, key) ==
    LET versions == VersionsOf(t.artifacts, key)
    IN IF ~HasArtifact(t.artifacts, key) \/ versions = <<>>
       THEN RegRaise("get_latest_schema", "SchemaNotFoundError", t)
       ELSE LET latest_version == versions[Len(versions)]
            IN IF latest_version.global_id \notin DOMAIN t.schemas
               THEN RegRaise("get_latest_schema", "SchemaNotFoundError", t)
               ELSE RegReturn("get_latest_schema", latest_version.global_id, key,
                              Bare(t.schemas[latest_version.global_id]), t)

\* the part of register_schema and register_schema_version that gives a new
\* content a new id and appends the version
RegisterNewContent(op, t, key, schema_content, normalized) ==
    LET global_id == _get_next_global_id(t)
    IN RegReturn(op, global_id, key, NoRegDoc,
                 Tables((global_id :> json_loads(schema_content).doc) @@ t.schemas,
                        AppendVersion(t.artifacts, key, global_id, schema_content),
                        (normalized :> global_id) @@ t.schema_to_global_id))

\* a known content that is stored again under a new id for a coordinate that
\* has no version of it
RegisterKnownContent_new_id(op, t, key, schema_content, normalized) ==
    LET existing_id == t.schema_to_global_id[normalized]
        versions == VersionsOf(t.artifacts, key)
    IN IF \E k \in 1..Len(versions) : versions[k].global_id = existing_id
       THEN RegReturn(op, existing_id, key, NoRegDoc, t)
       ELSE RegisterNewContent(op, t, key, schema_content, normalized)

\* the part that handles a content which already has an id
RegisterKnownContent(op, t, key, schema_content, normalized) ==
    LET existing_id == t.schema_to_global_id[normalized]
        versions == VersionsOf(t.artifacts, key)
    IN IF \E k \in 1..Len(versions) : versions[k].global_id = existing_id
       THEN RegReturn(op, existing_id, key, NoRegDoc, t)
       ELSE RegReturn(op, existing_id, key, NoRegDoc,
                      Tables(t.schemas,
                             AppendVersion(t.artifacts, key, existing_id, schema_content),
                             t.schema_to_global_id))

InMemory_register_schema(t, key, schema_content) ==
    LET normalized == _normalize_schema(schema_content)
    IN IF ~normalized.ok THEN RegRaise("register_schema", "JSONDecodeError", t)
       ELSE IF normalized.text \in DOMAIN t.schema_to_global_id
            THEN RegisterKnownContent("register_schema", t, key, schema_content,
                                      normalized.text)
            ELSE RegisterNewContent("register_schema", t, key, schema_content,
                                    normalized.text)

\* a register_schema_version that creates the artifact it does not find
InMemory_register_schema_version_creates(t, key, schema_content) ==
    LET normalized == _normalize_schema(schema_content)
    IN IF ~normalized.ok THEN RegRaise("register_schema_version", "JSONDecodeError", t)
       ELSE IF normalized.text \in DOMAIN t.schema_to_global_id
            THEN RegisterKnownContent("register_schema_version", t, key, schema_content,
                                      normalized.text)
            ELSE RegisterNewContent("register_schema_version", t, key, schema_content,
                                    normalized.text)

InMemory_register_schema_version(t, key, schema_content) ==
    LET normalized == _normalize_schema(schema_content)
    IN IF ~normalized.ok THEN RegRaise("register_schema_version", "JSONDecodeError", t)
       ELSE IF ~HasArtifact(t.artifacts, key)
            THEN RegRaise("register_schema_version", "AvroCurioError", t)
       ELSE IF normalized.text \in DOMAIN t.schema_to_global_id
            THEN RegisterKnownContent("register_schema_version", t, key, schema_content,
                                      normalized.text)
            ELSE RegisterNewContent("register_schema_version", t, key, schema_content,
                                    normalized.text)

\* the first artifact, in insertion order, one of whose versions has the content
InMemory_find_artifact_by_content(t, schema_content) ==
    LET normalized == _normalize_schema(schema_content)
        matches(i) == \E k \in 1..Len(t.artifacts[i].versions) :
                         _normalize_schema(t.artifacts[i].versions[k].schema_content).text
                           = normalized.text
        hits == {i \in 1..Len(t.artifacts) : matches(i)}
    IN IF ~normalized.ok THEN RegRaise("find_artifact_by_content", "JSONDecodeError", t)
       ELSE IF hits = {} THEN RegReturn("find_artifact_by_content", NoId, NoCoord, NoRegDoc, t)
       ELSE RegReturn("find_artifact_by_content", NoId,
                      t.artifacts[CHOOSE i \in hits : \A j \in hits : i <= j].key,
                      NoRegDoc, t)

\* an add_schema that lists the version without storing the document
InMemory_add_schema_unstored(t, global_id, schema_dict, key) ==
    LET schema_content == json_dumps(schema_dict)
        normalized == _normalize_schema(schema_content)
    IN RegReturn("add_schema", NoId, NoCoord, NoRegDoc,
                 Tables(t.schemas,
                        AppendVersion(t.artifacts, key, global_id, schema_content),
                        (normalized.text :> global_id) @@ t.schema_to_global_id))

InMemory_add_schema(t, global_id, schema_dict, key) ==
    LET schema_content == json_dumps(schema_dict)
        normalized == _normalize_schema(schema_content)
    IN RegReturn("add_schema", NoId, NoCoord, NoRegDoc,
                 Tables((global_id :> schema_dict) @@ t.schemas,
                        AppendVersion(t.artifacts, key, global_id, schema_content),
                        (normalized.text :> global_id) @@ t.schema_to_global_id))

InMemory_reset(t) == RegReturn("reset", NoId, NoCoord, NoRegDoc, EmptyTables)

(***************************************************************************)
(* The registry client as the serializer sees it.  Each call is answered   *)
(* with a return value or an exception.  InMemoryClient answers from its   *)
(* tables.  The other client answers anything a registry can answer: any   *)
(* document, any coordinate, any failure.                                  *)
(***************************************************************************)
MaxId == 2              \* largest global id in use

GlobalIds == 1..MaxId

RegDocs == {Bare(DocR), Bare(DocU), Bare(DocS), Wrapped(json_dumps(DocR)),
            Wrapped(InvalidText)}

ClientErrors == {"SchemaNotFoundError", "AvroCurioError", "Exception"}

AnyFailure(op) == {RegRaise(op, e, CurrentTables) : e \in ClientErrors}

\* InMemoryClient defines no find_artifact_by_fingerprint
HasMethod(c, fn) == ~(c = "InMemoryClient" /\ fn = "find_artifact_by_fingerprint")

Answers_get_schema_by_global_id(global_id) ==
    IF client = "InMemoryClient"
    THEN {InMemory_get_schema_by_global_id(CurrentTables, global_id)}
    ELSE {RegReturn("get_schema_by_global_id", global_id, NoCoord, d, CurrentTables) :
             d \in RegDocs} \cup AnyFailure("get_schema_by_global_id")

Answers_get_latest_schema(key) ==
    IF client = "InMemoryClient"
    THEN {InMemory_get_latest_schema(CurrentTables, key)}
    ELSE {RegReturn("get_latest_schema", i, key, Bare(DocR), CurrentTables) :
             i \in GlobalIds} \cup AnyFailure("get_latest_schema")

Answers_find_artifact_by_content(schema_content) ==
    IF client = "InMemoryClient"
    THEN {InMemory_find_artifact_by_content(CurrentTables, schema_content)}
    ELSE {RegReturn("find_artifact_by_content", NoId, c, NoRegDoc, CurrentTables) :
             c \in Coords \cup {NoCoord}} \cup AnyFailure("find_artifact_by_content")

Answers_find_artifact_by_fingerprint(schema_content) ==
    {RegReturn("find_artifact_by_fingerprint", NoId, c, NoRegDoc, CurrentTables) :
        c \in Coords \cup {NoCoord}} \cup AnyFailure("find_artifact_by_fingerprint")

(***************************************************************************)
(* AvroSerializer.                                                         *)
(***************************************************************************)
\* one entry of the log of registry-client calls: the method, its arguments
\* and, once the client has answered, what it returned or raised
ClientCall(fn, id, coord, text) ==
    [fn |-> fn, id |-> id, coord |-> coord, text |-> text,
     answered |-> FALSE, raised |-> "none", ret_coord |-> NoCoord, ret_id |-> NoId]

Answered(cs, a) ==
    [cs EXCEPT ![Len(cs)] = [@ EXCEPT !.answered = TRUE,
                                      !.raised = IF a.ok THEN "none" ELSE a.error,
                                      !.ret_coord = a.coord,
                                      !.ret_id = a.id]]

\* a faulty fallback: the fingerprint search runs whatever the content search found
fingerprint_fallback_always(match_result) == TRUE

\* if match_result is None: the fingerprint search is the fallback

fingerprint_fallback(match_result) == match_result = NoCoord

NoCall == [op |-> "none", obj |-> NoObj, schema_id |-> NoId, message |-> <<>>,
           target |-> "none", match_result |-> NoCoord, use_id |-> NoId,
           avro_payload |-> <<>>, registry_schema |-> NoRegDoc,
           origin |-> NoObj, origin_id |-> NoId, coord |-> NoCoord]

Res(status, bytes, obj, schema, error) ==
    [status |-> status, bytes |-> bytes, obj |-> obj, schema |-> schema, error |-> error]

NoResult == Res("none", <<>>, NoObj, NoRegDoc, NoError)

Returned(bytes, obj, schema) == Res("ok", bytes, obj, schema, NoError)

Raised(error) == Res("error", <<>>, NoObj, NoRegDoc, error)

\* _get_parsed_schema: the parsed schema and the cache it leaves, or the error
ParsedOk(parsed, cache) == [ok |-> TRUE, parsed |-> parsed, cache |-> cache, error |-> NoError]

ParsedFail(error, cache) == [ok |-> FALSE, parsed |-> NoDoc, cache |-> cache, error |-> error]

\* a faulty cache: filled although caching is disabled
_get_parsed_schema_caches_when_disabled(cache_on, cache, schema_id, registry_schema) ==
    LET loaded == IF registry_schema.shape = "wrapped"
                  THEN json_loads(registry_schema.text)
                  ELSE [ok |-> TRUE, doc |-> registry_schema.doc]
    IN IF schema_id \in DOMAIN cache
       THEN ParsedOk(cache[schema_id], cache)
       ELSE IF ~loaded.ok
            THEN ParsedFail(Err("DeserializationError", "Invalid JSON schema for ID",
                                schema_id, "none"), cache)
            ELSE ParsedOk(loaded.doc, (schema_id :> loaded.doc) @@ cache)

\* a faulty cache: never read, the document handed in is parsed on a hit too
_get_parsed_schema_ignores_cache(cache_on, cache, schema_id, registry_schema) ==
    LET loaded == IF registry_schema.shape = "wrapped"
                  THEN json_loads(registry_schema.text)
                  ELSE [ok |-> TRUE, doc |-> registry_schema.doc]
    IN IF ~loaded.ok
       THEN ParsedFail(Err("DeserializationError", "Invalid JSON schema for ID",
                           schema_id, "none"), cache)
       ELSE ParsedOk(loaded.doc,
                     IF cache_on /\ schema_id \notin DOMAIN cache
                     THEN (schema_id :> loaded.doc) @@ cache ELSE cache)

\* a parse that takes every registry document for a bare schema
_get_parsed_schema_no_unwrap(cache_on, cache, schema_id, registry_schema) ==
    IF cache_on /\ schema_id \in DOMAIN cache
    THEN ParsedOk(cache[schema_id], cache)
    ELSE ParsedOk(registry_schema.doc,
                  IF cache_on THEN (schema_id :> registry_schema.doc) @@ cache ELSE cache)

\* a faulty cache: the document handed in is parsed and cached again on a hit
_get_parsed_schema_always_reparse(cache_on, cache, schema_id, registry_schema) ==
    LET loaded == IF registry_schema.shape = "wrapped"
                  THEN json_loads(registry_schema.text)
                  ELSE [ok |-> TRUE, doc |-> registry_schema.doc]
    IN IF ~loaded.ok
       THEN ParsedFail(Err("DeserializationError", "Invalid JSON schema for ID",
                           schema_id, "none"), cache)
       ELSE ParsedOk(loaded.doc,
                     IF cache_on THEN (schema_id :> loaded.doc) @@ cache ELSE cache)

\* a faulty cache: an entry is left behind when the text is no JSON
_get_parsed_schema_caches_invalid(cache_on, cache, schema_id, registry_schema) ==
    IF cache_on /\ schema_id \in DOMAIN cache
    THEN ParsedOk(cache[schema_id], cache)
    ELSE LET loaded == IF registry_schema.shape = "wrapped"
                       THEN json_loads(registry_schema.text)
                       ELSE [ok |-> TRUE, doc |-> registry_schema.doc]
         IN IF ~loaded.ok
            THEN ParsedFail(Err("DeserializationError", "Invalid JSON schema for ID",
                                schema_id, "none"),
                            IF cache_on THEN (schema_id :> NoDoc) @@ cache ELSE cache)
            ELSE ParsedOk(loaded.doc,
                          IF cache_on THEN (schema_id :> loaded.doc) @@ cache ELSE cache)

_get_parsed_schema(cache_on, cache, schema_id, registry_schema) ==
    IF cache_on /\ schema_id \in DOMAIN cache
    THEN ParsedOk(cache[schema_id], cache)
    ELSE LET loaded == IF registry_schema.shape = "wrapped"
                       THEN json_loads(registry_schema.text)
                       ELSE [ok |-> TRUE, doc |-> registry_schema.doc]
         IN IF ~loaded.ok
            THEN ParsedFail(Err("DeserializationError", "Invalid JSON schema for ID",
                                schema_id, "none"), cache)
            ELSE ParsedOk(loaded.doc,
                          IF cache_on THEN (schema_id :> loaded.doc) @@ cache ELSE cache)

\* a faulty validation: the codec failure raised as SerializationError
_validate_data_against_schema_as_serialization_error(data, schema) ==
    IF schemaless_writer(schema, data).ok THEN NoError
    ELSE Err("SerializationError", "Data does not match schema", NoId, "codec")

\* _validate_data_against_schema: the error it raises, NoError when it returns
_validate_data_against_schema(data, schema) ==
    IF schemaless_writer(schema, data).ok THEN NoError
    ELSE Err("SchemaMismatchError", "Data does not match schema", NoId, "codec")

\* a faulty handler: every exception wrapped, the three re-raised kinds too
serialize_except_wraps_all(e, schema_id) ==
    Err("SerializationError",
        IF schema_id # NoId THEN "Failed to serialize object with schema ID"
        ELSE "Failed to serialize object with automatic schema lookup",
        schema_id, e.type)

\* a faulty handler: every exception passed on as it is
serialize_except_raw(e, schema_id) == e

\* the handler of serialize: which exception reaches the caller
serialize_except(e, schema_id) ==
    IF e.type \in {"SerializationError", "SchemaMismatchError", "SchemaMatchError"}
    THEN e
    ELSE Err("SerializationError",
             IF schema_id # NoId THEN "Failed to serialize object with schema ID"
             ELSE "Failed to serialize object with automatic schema lookup",
             schema_id, e.type)

\* a faulty handler: a DeserializationError wrapped again
deserialize_except_wraps_all(e, op) ==
    Err("DeserializationError",
        IF op = "deserialize" THEN "Failed to deserialize message"
        ELSE "Failed to deserialize message with schema",
        NoId, e.type)

\* the handler of deserialize and of deserialize_with_schema
deserialize_except(e, op) ==
    IF e.type = "DeserializationError" THEN e
    ELSE Err("DeserializationError",
             IF op = "deserialize" THEN "Failed to deserialize message"
             ELSE "Failed to deserialize message with schema",
             NoId, e.type)

\* a client exception as it arrives in the serializer
ClientRaised(answer) == Err(answer.error, "registry client", NoId, "none")

\* _serialize_with_schema_id after the registry has answered: what it returns
\* or raises, the Avro payload and the cache it leaves
Outcome(ok, bytes, payload, obj, error, cache) ==
    [ok |-> ok, bytes |-> bytes, payload |-> payload, obj |-> obj,
     error |-> error, cache |-> cache]

\* a faulty serialization: the Avro payload returned without its header
_serialize_with_schema_id_unframed(cache_on, cache, obj, schema_id, registry_schema) ==
    LET p == _get_parsed_schema(cache_on, cache, schema_id, registry_schema)
        w == schemaless_writer(p.parsed, asdict(obj))
    IN IF ~p.ok \/ ~w.ok
       THEN Outcome(FALSE, <<>>, <<>>, NoObj, Err("Exception", "", NoId, "none"), p.cache)
       ELSE Outcome(TRUE, w.bytes, w.bytes, NoObj, NoError, p.cache)

\* a faulty serialization: the message framed with another id
_serialize_with_schema_id_wrong_id(cache_on, cache, obj, schema_id, registry_schema) ==
    LET p == _get_parsed_schema(cache_on, cache, schema_id, registry_schema)
        w == schemaless_writer(p.parsed, asdict(obj))
    IN IF ~p.ok \/ ~w.ok
       THEN Outcome(FALSE, <<>>, <<>>, NoObj, Err("Exception", "", NoId, "none"), p.cache)
       ELSE Outcome(TRUE, ConfluentWireFormat_encode(ToU32(schema_id + 1), w.bytes),
                    w.bytes, NoObj, NoError, p.cache)

_serialize_with_schema_id(cache_on, cache, obj, schema_id, registry_schema) ==
    LET p == _get_parsed_schema(cache_on, cache, schema_id, registry_schema)
    IN IF ~p.ok THEN Outcome(FALSE, <<>>, <<>>, NoObj, p.error, p.cache)
       ELSE LET obj_dict == asdict(obj)
                invalid == _validate_data_against_schema(obj_dict, p.parsed)
                w == schemaless_writer(p.parsed, obj_dict)
            IN IF invalid # NoError
               THEN Outcome(FALSE, <<>>, <<>>, NoObj, invalid, p.cache)
               ELSE IF ~w.ok
               THEN Outcome(FALSE, <<>>, <<>>, NoObj,
                            Err("Exception", "schemaless_writer", NoId, "none"), p.cache)
               ELSE Outcome(TRUE, ConfluentWireFormat_encode(ToU32(schema_id), w.bytes),
                            w.bytes, NoObj, NoError, p.cache)

\* a deserialize_with_schema that resolved against the target's schema, as
\* deserialize does
DeserializeBody_always_projects(op, cache_on, cache, payload, schema_id, registry_schema, target) ==
    LET p == _get_parsed_schema(cache_on, cache, schema_id, registry_schema)
    IN IF ~p.ok THEN Outcome(FALSE, <<>>, <<>>, NoObj, p.error, p.cache)
       ELSE LET d == schemaless_reader_projected(payload, p.parsed,
                                                 avro_schema_to_python(target))
            IN IF ~d.ok
               THEN Outcome(FALSE, <<>>, <<>>, NoObj,
                            Err("Exception", "schemaless_reader", NoId, "none"), p.cache)
               ELSE LET o == parse_obj(target, d.datum)
                    IN IF ~o.ok
                       THEN Outcome(FALSE, <<>>, <<>>, NoObj,
                                    Err("Exception", "parse_obj", NoId, "none"), p.cache)
                       ELSE Outcome(TRUE, <<>>, payload, o.obj, NoError, p.cache)

\* the body of deserialize / deserialize_with_schema after the registry has
\* answered: the object, or the exception raised inside the try block
DeserializeBody(op, cache_on, cache, payload, schema_id, registry_schema, target) ==
    LET p == _get_parsed_schema(cache_on, cache, schema_id, registry_schema)
    IN IF ~p.ok THEN Outcome(FALSE, <<>>, <<>>, NoObj, p.error, p.cache)
       ELSE LET d == IF op = "deserialize"
                     THEN schemaless_reader_projected(payload, p.parsed,
                                                      avro_schema_to_python(target))
                     ELSE schemaless_reader(payload, p.parsed)
            IN IF ~d.ok
               THEN Outcome(FALSE, <<>>, <<>>, NoObj,
                            Err("Exception", "schemaless_reader", NoId, "none"), p.cache)
               ELSE LET o == parse_obj(target, d.datum)
                    IN IF ~o.ok
                       THEN Outcome(FALSE, <<>>, <<>>, NoObj,
                                    Err("Exception", "parse_obj", NoId, "none"), p.cache)
                       ELSE Outcome(TRUE, <<>>, payload, o.obj, NoError, p.cache)

(***************************************************************************)
(* Serializer calls, one step per await.                                   *)
(***************************************************************************)
MaxVersions == 2        \* most versions one artifact gets

NoRegResult == [op |-> "none", ok |-> TRUE, id |-> NoId, coord |-> NoCoord,
                doc |-> NoRegDoc, error |-> "none", key |-> NoCoord, text |-> NoText,
                global_id |-> NoId]

CraftedMessages == {
    <<0, 0, 0, 0>>,                     \* shorter than the header
    <<1, 0, 0, 0, 1, 14, 2, 120>>,      \* wrong magic byte
    <<0, 0, 0, 0, 1>>,                  \* header only
    <<0, 0, 0, 0, 1, 128>>,             \* a varint that never ends
    <<0, 0, 0, 0, 1, 14, 2, 120>>,      \* {id: 7, name: "x"} under id 1
    <<0, 0, 0, 0, 2, 128, 1>> }         \* {id: 64} under id 2

Finish(r) ==
    /\ pc' = "done"
    /\ result' = r

\* a serialize that looks the schema up whether or not it was given an id
Serialize_always_looks_up(obj, schema_id) ==
    /\ pc = "idle"
    /\ call' = [NoCall EXCEPT !.op = "serialize", !.obj = obj,
                              !.schema_id = schema_id, !.use_id = schema_id]
    /\ calls' = <<ClientCall("find_artifact_by_content", NoId, NoCoord,
                             avro_schema(obj.cls))>>
    /\ pc' = "find_content"
    /\ result' = NoResult
    /\ UNCHANGED <<wire, apicurio_vars, task_vars, assigned, client, cache_schemas, parsed_schema_cache,
                   registry_vars>>

\* serialize(obj, schema_id) up to its first await
Serialize(obj, schema_id) ==
    /\ pc = "idle"
    /\ call' = [NoCall EXCEPT !.op = "serialize", !.obj = obj,
                              !.schema_id = schema_id, !.use_id = schema_id]
    /\ IF schema_id # NoId
       THEN /\ calls' = <<ClientCall("get_schema_by_global_id", schema_id, NoCoord, NoText)>>
            /\ pc' = "get_schema"
       ELSE /\ calls' = <<ClientCall("find_artifact_by_content", NoId, NoCoord,
                                     avro_schema(obj.cls))>>
            /\ pc' = "find_content"
    /\ result' = NoResult
    /\ UNCHANGED <<wire, apicurio_vars, task_vars, assigned, client, cache_schemas, parsed_schema_cache,
                   registry_vars>>

\* find_artifact_by_content has answered
FindContentAnswered ==
    /\ pc = "find_content"
    /\ \E a \in Answers_find_artifact_by_content(avro_schema(call.obj.cls)) :
          IF ~a.ok
          THEN /\ Finish(Raised(serialize_except(ClientRaised(a), call.schema_id)))
               /\ calls' = Answered(calls, a)
               /\ call' = call
          ELSE IF ~fingerprint_fallback(a.coord)
          THEN /\ call' = [call EXCEPT !.match_result = a.coord]
               /\ calls' = Append(Answered(calls, a),
                                  ClientCall("get_latest_schema", NoId, a.coord, NoText))
               /\ pc' = "get_latest"
               /\ result' = result
          ELSE IF HasMethod(client, "find_artifact_by_fingerprint")
          THEN /\ calls' = Append(Answered(calls, a),
                                  ClientCall("find_artifact_by_fingerprint", NoId,
                                             NoCoord, avro_schema(call.obj.cls)))
               /\ pc' = "find_fingerprint"
               /\ UNCHANGED <<call, result>>
          ELSE /\ Finish(Raised(serialize_except(
                            Err("AttributeError", "find_artifact_by_fingerprint", NoId, "none"),
                            call.schema_id)))
               /\ calls' = Answered(calls, a)
               /\ call' = call
    /\ UNCHANGED <<wire, apicurio_vars, task_vars, assigned, client, cache_schemas, parsed_schema_cache,
                   registry_vars>>

\* find_artifact_by_fingerprint has answered
FindFingerprintAnswered ==
    /\ pc = "find_fingerprint"
    /\ \E a \in Answers_find_artifact_by_fingerprint(avro_schema(call.obj.cls)) :
          IF ~a.ok
          THEN /\ Finish(Raised(serialize_except(ClientRaised(a), call.schema_id)))
               /\ calls' = Answered(calls, a)
               /\ call' = call
          ELSE IF a.coord # NoCoord
          THEN /\ call' = [call EXCEPT !.match_result = a.coord]
               /\ calls' = Append(Answered(calls, a),
                                  ClientCall("get_latest_schema", NoId, a.coord, NoText))
               /\ pc' = "get_latest"
               /\ result' = result
          ELSE /\ Finish(Raised(serialize_except(
                            Err("SchemaMatchError", "No matching schema found in registry",
                                NoId, "none"),
                            call.schema_id)))
               /\ calls' = Answered(calls, a)
               /\ call' = call
    /\ UNCHANGED <<wire, apicurio_vars, task_vars, assigned, client, cache_schemas, parsed_schema_cache,
                   registry_vars>>

\* get_latest_schema has answered
GetLatestAnswered ==
    /\ pc = "get_latest"
    /\ \E a \in Answers_get_latest_schema(call.match_result) :
          IF ~a.ok
          THEN /\ Finish(Raised(serialize_except(ClientRaised(a), call.schema_id)))
               /\ calls' = Answered(calls, a)
               /\ call' = call
          ELSE /\ call' = [call EXCEPT !.use_id = a.id]
               /\ calls' = Append(Answered(calls, a),
                                  ClientCall("get_schema_by_global_id", a.id, NoCoord, NoText))
               /\ pc' = "get_schema"
               /\ result' = result
    /\ UNCHANGED <<wire, apicurio_vars, task_vars, assigned, client, cache_schemas, parsed_schema_cache,
                   registry_vars>>

Registered(cls, global_id) ==
    /\ global_id \in DOMAIN schemas
    /\ schemas[global_id] = avro_schema_to_python(cls)

\* get_schema_by_global_id has answered inside _serialize_with_schema_id
SerializeGotSchema ==
    /\ pc = "get_schema"
    /\ call.op = "serialize"
    /\ \E a \in Answers_get_schema_by_global_id(call.use_id) :
          /\ calls' = Answered(calls, a)
          /\ IF ~a.ok
             THEN /\ Finish(Raised(serialize_except(ClientRaised(a), call.schema_id)))
                  /\ UNCHANGED <<call, parsed_schema_cache>>
             ELSE LET o == _serialize_with_schema_id(cache_schemas, parsed_schema_cache,
                                                     call.obj, call.use_id, a.doc)
                  IN /\ parsed_schema_cache' = o.cache
                     /\ call' = [call EXCEPT !.registry_schema = a.doc,
                                             !.avro_payload = o.payload]
                     /\ IF o.ok
                        THEN Finish(Returned(o.bytes, NoObj, NoRegDoc))
                        ELSE Finish(Raised(serialize_except(o.error, call.schema_id)))
    /\ UNCHANGED <<wire, apicurio_vars, task_vars, assigned, client, cache_schemas, registry_vars>>

\* deserialize(message, target_class) / deserialize_with_schema up to the await;
\* origin is the object whose serialization the message is, when it is one
DeserializeStart(op, message, target, origin, origin_id) ==
    /\ LET d == ConfluentWireFormat_decode(message)
           c == [NoCall EXCEPT !.op = op, !.message = message, !.target = target,
                               !.origin = origin, !.origin_id = origin_id]
       IN IF ~d.ok
          THEN /\ call' = c
               /\ calls' = <<>>
               /\ Finish(Raised(deserialize_except(Err(d.error, "wire format", NoId, "none"),
                                                   op)))
          ELSE /\ call' = [c EXCEPT !.use_id = FromU32(d.schema_id),
                                    !.avro_payload = d.payload]
               /\ calls' = <<ClientCall("get_schema_by_global_id", FromU32(d.schema_id),
                                        NoCoord, NoText)>>
               /\ pc' = "get_schema"
               /\ result' = NoResult
    /\ UNCHANGED <<wire, apicurio_vars, task_vars, assigned, client, cache_schemas, parsed_schema_cache,
                   registry_vars>>

\* a message from anywhere is deserialized
Deserialize(op, message, target) ==
    /\ pc = "idle"
    /\ DeserializeStart(op, message, target, NoObj, NoId)

\* the bytes serialize has just returned are deserialized
DeserializeSerialized(op, target) ==
    /\ pc = "done"
    /\ call.op = "serialize"
    /\ result.status = "ok"
    /\ DeserializeStart(op, result.bytes, target, call.obj, call.use_id)

\* get_schema_by_global_id has answered inside deserialize
DeserializeGotSchema ==
    /\ pc = "get_schema"
    /\ call.op \in {"deserialize", "deserialize_with_schema"}
    /\ \E a \in Answers_get_schema_by_global_id(call.use_id) :
          /\ calls' = Answered(calls, a)
          /\ IF ~a.ok
             THEN /\ Finish(Raised(deserialize_except(ClientRaised(a), call.op)))
                  /\ UNCHANGED <<call, parsed_schema_cache>>
             ELSE LET o == DeserializeBody(call.op, cache_schemas, parsed_schema_cache,
                                           call.avro_payload, call.use_id, a.doc, call.target)
                  IN /\ parsed_schema_cache' = o.cache
                     /\ call' = [call EXCEPT !.registry_schema = a.doc]
                     /\ IF o.ok
                        THEN Finish(Returned(<<>>, o.obj,
                                             IF call.op = "deserialize_with_schema"
                                             THEN a.doc ELSE NoRegDoc))
                        ELSE Finish(Raised(deserialize_except(o.error, call.op)))
    /\ UNCHANGED <<wire, apicurio_vars, task_vars, assigned, client, cache_schemas, registry_vars>>

\* the caller takes the result
Return ==
    /\ pc = "done"
    /\ pc' = "idle"
    /\ call' = NoCall
    /\ calls' = <<>>
    /\ result' = NoResult
    /\ reg_result' = NoRegResult
    /\ UNCHANGED <<wire, apicurio_vars, task_vars, assigned, client, cache_schemas, parsed_schema_cache,
                   schemas, artifacts, schema_to_global_id>>

SerializerInit ==
    /\ cache_schemas \in BOOLEAN
    /\ parsed_schema_cache = EmptyMap
    /\ pc = "idle"
    /\ call = NoCall
    /\ calls = <<>>
    /\ result = NoResult

\* the history after a step that leaves the id-to-schema table s
Assign(a, s) ==
    [id \in DOMAIN a \cup DOMAIN s |->
        (IF id \in DOMAIN a THEN a[id] ELSE {}) \cup (IF id \in DOMAIN s THEN {s[id]} ELSE {})]

\* the register_schema calls that run concurrently
NumTasks == 3

Tasks == 1..NumTasks

\* a call that has not started
NewTask == [pc |-> "new", key |-> NoCoord, text |-> NoText, normalized |-> NoText,
            known |-> FALSE, ret |-> NoId, op |-> "none", global_id |-> NoId]

RegistryInit ==
    /\ schemas = EmptyMap
    /\ artifacts = <<>>
    /\ schema_to_global_id = EmptyMap
    /\ reg_result = NoRegResult
    /\ tasks = [t \in Tasks |-> NewTask]
    /\ _lock = {}
    /\ assigned = EmptyMap

(***************************************************************************)
(* InMemoryClient operations called directly.  No InMemoryClient method    *)
(* awaits while it holds the lock, so acquiring the lock never suspends    *)
(* and a serializer call over InMemoryClient runs to its end without       *)
(* another task running in between: registry operations start only when no *)
(* serializer call is in flight.                                           *)
(***************************************************************************)
WithinBounds(t) ==
    /\ \A id \in DOMAIN t.schemas : id <= MaxId
    /\ \A i \in 1..Len(t.artifacts) : Len(t.artifacts[i].versions) <= MaxVersions

ClassTexts == {avro_schema(cls) : cls \in Classes}

\* the texts handed to the registry directly: also another spelling of one
\* document, and a text that is no JSON
RegTexts == ClassTexts \cup {Text(DocR, KeysVariant, FALSE), InvalidText}

RegistryDoes(r, key, text, global_id) ==
    /\ pc = "idle"
    /\ WithinBounds(r.tables)
    /\ schemas' = r.tables.schemas
    /\ artifacts' = r.tables.artifacts
    /\ schema_to_global_id' = r.tables.schema_to_global_id
    /\ reg_result' = [op |-> r.op, ok |-> r.ok, id |-> r.id, coord |-> r.coord,
                      doc |-> r.doc, error |-> r.error, key |-> key, text |-> text,
                      global_id |-> global_id]
    /\ assigned' = Assign(assigned, r.tables.schemas)
    /\ pc' = "done"
    /\ UNCHANGED <<wire, apicurio_vars, task_vars, client, cache_schemas, parsed_schema_cache, call, calls,
                   result>>

RegisterSchema(key, text) ==
    RegistryDoes(InMemory_register_schema(CurrentTables, key, text), key, text, NoId)

RegisterSchemaVersion(key, text) ==
    RegistryDoes(InMemory_register_schema_version(CurrentTables, key, text), key, text,
                 NoId)

AddSchema(global_id, schema_dict, key) ==
    RegistryDoes(InMemory_add_schema(CurrentTables, global_id, schema_dict, key),
                 key, json_dumps(schema_dict), global_id)

Reset == RegistryDoes(InMemory_reset(CurrentTables), NoCoord, NoText, NoId)

\* the read operations of InMemoryClient, called directly
FindArtifactByContent(text) ==
    RegistryDoes(InMemory_find_artifact_by_content(CurrentTables, text), NoCoord, text, NoId)

GetLatestSchema(key) ==
    RegistryDoes(InMemory_get_latest_schema(CurrentTables, key), key, NoText, NoId)

GetSchemaByGlobalId(global_id) ==
    RegistryDoes(InMemory_get_schema_by_global_id(CurrentTables, global_id),
                 NoCoord, NoText, global_id)

\* a register_schema that derived the schema of obj and registered it with the
\* client
AvroSerializer_register_schema_registers(obj, group_id, artifact_id) ==
    LET key == <<group_id, artifact_id>>
        r == InMemory_register_schema(CurrentTables, key, avro_schema(obj.cls))
    IN /\ pc = "idle"
       /\ WithinBounds(r.tables)
       /\ schemas' = r.tables.schemas
       /\ artifacts' = r.tables.artifacts
       /\ schema_to_global_id' = r.tables.schema_to_global_id
       /\ call' = [NoCall EXCEPT !.op = "register_schema", !.obj = obj, !.coord = key]
       /\ calls' = Answered(<<ClientCall("register_schema", NoId, key,
                                         avro_schema(obj.cls))>>,
                            [ok |-> TRUE, error |-> "none", coord |-> key, id |-> r.id])
       /\ Finish(Returned(<<>>, NoObj, NoRegDoc))
       /\ UNCHANGED <<wire, apicurio_vars, task_vars, assigned, client, cache_schemas, parsed_schema_cache,
                      reg_result>>

\* AvroSerializer.register_schema(obj, group_id, artifact_id): the raise is the
\* whole body
AvroSerializer_register_schema(obj, group_id, artifact_id) ==
    /\ pc = "idle"
    /\ call' = [NoCall EXCEPT !.op = "register_schema", !.obj = obj,
                              !.coord = <<group_id, artifact_id>>]
    /\ calls' = <<>>
    /\ Finish(Raised(Err("NotImplementedError", "Schema registration is not implemented",
                         NoId, "none")))
    /\ UNCHANGED <<wire, apicurio_vars, task_vars, assigned, client, cache_schemas, parsed_schema_cache,
                   registry_vars>>

(***************************************************************************)
(* Concurrent register_schema calls on one InMemoryClient, as asyncio.gather *)
(* runs them.  A call is cut at its await (the lock) and, more finely than  *)
(* the event loop can, between the membership test and the writes that      *)
(* follow it, so that the lock is what keeps the two together.              *)
(***************************************************************************)
ConcurrentTexts ==
    {avro_schema("R"), Text(DocR, KeysVariant, FALSE), avro_schema("U"), json_dumps(DocS)}

\* the registry the calls meet: the schema of U is registered under default/user
InitialTables ==
    InMemory_register_schema(EmptyTables, <<"default", "user">>, avro_schema("U")).tables

\* register_schema(group, artifact_name, schema_content) up to async with
TaskCall(t, key, text) ==
    /\ tasks[t].pc = "new"
    /\ tasks' = [tasks EXCEPT ![t] = [@ EXCEPT !.pc = "normalized", !.key = key,
                                               !.text = text,
                                               !.normalized = _normalize_schema(text).text]]
    /\ UNCHANGED <<wire, apicurio_vars, client, serializer_vars, registry_vars, _lock, assigned>>

\* a lock that lets every task in
TaskAcquire_unlocked(t) ==
    /\ tasks[t].pc = "normalized"
    /\ _lock' = _lock \cup {t}
    /\ tasks' = [tasks EXCEPT ![t].pc = "locked"]
    /\ UNCHANGED <<wire, apicurio_vars, client, serializer_vars, registry_vars, assigned>>

\* async with self._lock: entered when no task holds the lock
TaskAcquire(t) ==
    /\ tasks[t].pc = "normalized"
    /\ _lock = {}
    /\ _lock' = {t}
    /\ tasks' = [tasks EXCEPT ![t].pc = "locked"]
    /\ UNCHANGED <<wire, apicurio_vars, client, serializer_vars, registry_vars, assigned>>

\* if normalized in self._schema_to_global_id
TaskCheck(t) ==
    /\ tasks[t].pc = "locked"
    /\ tasks' = [tasks EXCEPT ![t] = [@ EXCEPT !.pc = "checked",
                                               !.known = tasks[t].normalized
                                                           \in DOMAIN schema_to_global_id]]
    /\ UNCHANGED <<wire, apicurio_vars, client, serializer_vars, registry_vars, _lock, assigned>>

\* the branch taken, its return, and the release of the lock on the way out
TaskWrite(t) ==
    /\ tasks[t].pc = "checked"
    /\ LET r == IF tasks[t].known
                THEN RegisterKnownContent("register_schema", CurrentTables, tasks[t].key,
                                          tasks[t].text, tasks[t].normalized)
                ELSE RegisterNewContent("register_schema", CurrentTables, tasks[t].key,
                                        tasks[t].text, tasks[t].normalized)
       IN /\ schemas' = r.tables.schemas
          /\ artifacts' = r.tables.artifacts
          /\ schema_to_global_id' = r.tables.schema_to_global_id
          /\ tasks' = [tasks EXCEPT ![t] = [@ EXCEPT !.pc = "returned", !.ret = r.id]]
          /\ assigned' = Assign(assigned, r.tables.schemas)
    /\ _lock' = _lock \ {t}
    /\ UNCHANGED <<wire, apicurio_vars, client, serializer_vars, reg_result>>

(***************************************************************************)
(* ApicurioClient.find_artifact_by_fingerprint: the listing of artifacts is  *)
(* fetched, then the latest schema of each candidate in turn, one await    *)
(* for each.  The registry answers the listing and each fetch as it likes. *)
(***************************************************************************)
MaxListing == 3         \* most candidates in one listing

\* to_parsing_canonical_form: name, type and fields of the record, in that
\* order and nothing else; fingerprint() is injective on it up to MD5 collisions
to_parsing_canonical_form(doc) == RecordDoc(doc.name, doc.fields)

fingerprint(doc) == to_parsing_canonical_form(doc)

\* what get_latest_schema gives for a candidate: an exception, or a document
CandidateAnswers == {NoRegDoc, Bare(DocR), Bare(DocU), Wrapped(Text(DocR, KeysSorted, FALSE)),
                     Wrapped(InvalidText)}

Candidates == [key : Coords, latest : CandidateAnswers]

\* the texts searched for: two spellings of one schema, and a text that is no
\* JSON
ScanTexts == {avro_schema("R"), Text(DocR, KeysVariant, FALSE), InvalidText}

NoScan == [pc |-> "idle", target |-> NoDoc, artifacts |-> <<>>, i |-> 0,
           ret |-> NoCoord, error |-> "none"]

\* find_artifact_by_fingerprint(schema_content) up to the first candidate: the
\* target's fingerprint, the search request and its answer
ScanStart(schema_content, listing_ok, listing) ==
    /\ scan.pc = "idle"
    /\ LET target_schema == json_loads(schema_content)
       IN IF ~target_schema.ok
          THEN scan' = [NoScan EXCEPT !.pc = "done", !.error = "AvroCurioError"]
          ELSE IF ~listing_ok
          THEN scan' = [NoScan EXCEPT !.pc = "done", !.target = target_schema.doc,
                                      !.error = "AvroCurioError"]
          ELSE scan' = [NoScan EXCEPT !.pc = "scanning", !.target = target_schema.doc,
                                      !.artifacts = listing, !.i = 1]
    /\ UNCHANGED <<wire, client, serializer_vars, registry_vars, task_vars, assigned,
                   _schema_cache, fetches, http_requests>>

\* the fingerprint of the candidate's latest schema, or the exception raised
\* on the way to it
CandidateFingerprint(latest) ==
    IF latest = NoRegDoc THEN [ok |-> FALSE, print |-> NoDoc]
    ELSE LET artifact_schema == IF latest.shape = "wrapped" THEN json_loads(latest.text)
                                ELSE json_loads(json_dumps(latest.doc))
         IN [ok |-> artifact_schema.ok, print |-> fingerprint(artifact_schema.doc)]

\* a scan that gives up at the first candidate that fails
ScanCandidate_aborts ==
    /\ scan.pc = "scanning"
    /\ IF scan.i > Len(scan.artifacts)
       THEN scan' = [scan EXCEPT !.pc = "done"]
       ELSE LET artifact == scan.artifacts[scan.i]
                f == CandidateFingerprint(artifact.latest)
            IN IF ~f.ok THEN scan' = [scan EXCEPT !.pc = "done"]
               ELSE IF f.print = fingerprint(scan.target)
               THEN scan' = [scan EXCEPT !.pc = "done", !.ret = artifact.key]
               ELSE scan' = [scan EXCEPT !.i = @ + 1]
    /\ UNCHANGED <<wire, client, serializer_vars, registry_vars, task_vars, assigned,
                   _schema_cache, fetches, http_requests>>

\* one turn of the loop over the candidates, or the return None after it
ScanCandidate ==
    /\ scan.pc = "scanning"
    /\ IF scan.i > Len(scan.artifacts)
       THEN scan' = [scan EXCEPT !.pc = "done"]
       ELSE LET artifact == scan.artifacts[scan.i]
                f == CandidateFingerprint(artifact.latest)
            IN IF f.ok /\ f.print = fingerprint(scan.target)
               THEN scan' = [scan EXCEPT !.pc = "done", !.ret = artifact.key]
               ELSE scan' = [scan EXCEPT !.i = @ + 1]
    /\ UNCHANGED <<wire, client, serializer_vars, registry_vars, task_vars, assigned,
                   _schema_cache, fetches, http_requests>>

\* the caller takes the result
ScanReturn ==
    /\ scan.pc = "done"
    /\ scan' = NoScan
    /\ UNCHANGED <<wire, client, serializer_vars, registry_vars, task_vars, assigned,
                   _schema_cache, fetches, http_requests>>

(***************************************************************************)
(* ApicurioClient.get_schema_by_global_id: callers on one event loop; a    *)
(* call is one step when the id is cached, and otherwise a request and,    *)
(* after the await, its response.                                          *)
(***************************************************************************)
MaxRequests == 3        \* most HTTP requests sent

Callers == {"a", "b"}

NoFetch == [pc |-> "idle", global_id |-> NoId, ret |-> NoRegDoc, error |-> "none",
            requested |-> FALSE]

\* the responses of the registry: 200 with a JSON body, 200 with a body that
\* is no JSON, 404, another error status, and a request that fails
Responses == {[status |-> 200, body |-> json_dumps(DocR)],
              [status |-> 200, body |-> json_dumps(DocU)],
              [status |-> 200, body |-> InvalidText],
              [status |-> 404, body |-> NoText],
              [status |-> 500, body |-> NoText],
              [status |-> 0, body |-> NoText]}

\* get_schema_by_global_id(global_id) up to the await of the GET, or to its
\* return when the id is cached
FetchCall(c, global_id) ==
    /\ fetches[c].pc # "requested"
    /\ IF global_id \in DOMAIN _schema_cache
       THEN /\ fetches' = [fetches EXCEPT ![c] = [NoFetch EXCEPT !.pc = "returned",
                                  !.global_id = global_id, !.ret = _schema_cache[global_id]]]
            /\ UNCHANGED http_requests
       ELSE /\ http_requests < MaxRequests
            /\ fetches' = [fetches EXCEPT ![c] = [NoFetch EXCEPT !.pc = "requested",
                                  !.global_id = global_id, !.requested = TRUE]]
            /\ http_requests' = http_requests + 1
    /\ UNCHANGED <<wire, client, serializer_vars, registry_vars, task_vars, assigned,
                   _schema_cache, scan>>

\* a client that stores what a failed call leaves behind
FetchResponse_caches_failures(c, response) ==
    /\ fetches[c].pc = "requested"
    /\ LET global_id == fetches[c].global_id
           parsed == json_loads(response.body)
           schema == IF parsed.ok THEN Bare(parsed.doc) ELSE Wrapped(response.body)
       IN IF response.status = 200
          THEN /\ _schema_cache' = (global_id :> schema) @@ _schema_cache
               /\ fetches' = [fetches EXCEPT ![c].pc = "returned", ![c].ret = schema]
          ELSE /\ _schema_cache' = (global_id :> NoRegDoc) @@ _schema_cache
               /\ fetches' = [fetches EXCEPT ![c].pc = "returned", ![c].error =
                                 IF response.status = 404 THEN "SchemaNotFoundError"
                                 ELSE "AvroCurioError"]
    /\ UNCHANGED <<wire, client, serializer_vars, registry_vars, task_vars, assigned,
                   http_requests, scan>>

\* the rest of get_schema_by_global_id: the response, the cache entry, the
\* return or the exception
FetchResponse(c, response) ==
    /\ fetches[c].pc = "requested"
    /\ LET global_id == fetches[c].global_id
           parsed == json_loads(response.body)
           schema == IF parsed.ok THEN Bare(parsed.doc) ELSE Wrapped(response.body)
       IN IF response.status = 200
          THEN /\ _schema_cache' = (global_id :> schema) @@ _schema_cache
               /\ fetches' = [fetches EXCEPT ![c].pc = "returned", ![c].ret = schema]
          ELSE /\ UNCHANGED _schema_cache
               /\ fetches' = [fetches EXCEPT ![c].pc = "returned", ![c].error =
                                 IF response.status = 404 THEN "SchemaNotFoundError"
                                 ELSE "AvroCurioError"]
    /\ UNCHANGED <<wire, client, serializer_vars, registry_vars, task_vars, assigned,
                   http_requests, scan>>

ApicurioInit ==
    /\ _schema_cache = EmptyMap
    /\ fetches = [c \in Callers |-> NoFetch]
    /\ http_requests = 0
    /\ scan = NoScan

(***************************************************************************)
(* Specifications.                                                         *)
(***************************************************************************)
Init ==
    /\ wire = NoWire
    /\ client = "ApicurioClient"
    /\ SerializerInit
    /\ RegistryInit
    /\ ApicurioInit

Next ==
    \/ \E obj \in Objs, schema_id \in GlobalIds \cup {NoId} : Serialize(obj, schema_id)
    \/ FindContentAnswered
    \/ FindFingerprintAnswered
    \/ GetLatestAnswered
    \/ SerializeGotSchema
    \/ \E op \in {"deserialize", "deserialize_with_schema"}, m \in CraftedMessages,
          t \in Classes : Deserialize(op, m, t)
    \/ \E op \in {"deserialize", "deserialize_with_schema"}, t \in Classes :
          DeserializeSerialized(op, t)
    \/ DeserializeGotSchema
    \/ \E obj \in Objs, key \in Coords : AvroSerializer_register_schema(obj, key[1], key[2])
    \/ Return

Spec == Init /\ [][Next]_vars

InitInMemory ==
    /\ wire = NoWire
    /\ client = "InMemoryClient"
    /\ SerializerInit
    /\ RegistryInit
    /\ ApicurioInit

NextInMemory ==
    \/ \E obj \in Objs, schema_id \in GlobalIds \cup {NoId} : Serialize(obj, schema_id)
    \/ FindContentAnswered
    \/ GetLatestAnswered
    \/ SerializeGotSchema
    \/ \E op \in {"deserialize", "deserialize_with_schema"}, m \in CraftedMessages,
          t \in Classes : Deserialize(op, m, t)
    \/ \E op \in {"deserialize", "deserialize_with_schema"}, t \in Classes :
          DeserializeSerialized(op, t)
    \/ DeserializeGotSchema
    \/ \E obj \in Objs, key \in Coords : AvroSerializer_register_schema(obj, key[1], key[2])
    \/ Return
    \/ \E key \in Coords, text \in ClassTexts : RegisterSchema(key, text)
    \/ \E key \in Coords, text \in ClassTexts : RegisterSchemaVersion(key, text)
    \/ Reset

SpecInMemory == InitInMemory /\ [][NextInMemory]_vars

\* serialize over an InMemoryClient that is filled by register_schema and
\* register_schema_version only
NextLookup ==
    \/ \E obj \in Objs, schema_id \in GlobalIds \cup {NoId} : Serialize(obj, schema_id)
    \/ FindContentAnswered
    \/ GetLatestAnswered
    \/ SerializeGotSchema
    \/ Return
    \/ \E key \in Coords, text \in ClassTexts : RegisterSchema(key, text)
    \/ \E key \in Coords, text \in ClassTexts : RegisterSchemaVersion(key, text)

SpecLookup == InitInMemory /\ [][NextLookup]_vars

\* InMemoryClient on its own, every operation with every input
InitRegistry ==
    /\ wire = NoWire
    /\ client = "InMemoryClient"
    /\ SerializerInit
    /\ cache_schemas = TRUE
    /\ RegistryInit
    /\ ApicurioInit

NextRegistry ==
    \/ \E key \in Coords, text \in ClassTexts : RegisterSchema(key, text)
    \/ \E key \in Coords, text \in ClassTexts : RegisterSchemaVersion(key, text)
    \/ \E id \in GlobalIds, d \in {DocR, DocU} : AddSchema(id, d, <<"default", "user">>)
    \/ Reset
    \/ Return

SpecRegistry == InitRegistry /\ [][NextRegistry]_vars

\* InMemoryClient as the registry the serializer is written against: schemas
\* come in by registration, under every spelling of their text
NextRegistration ==
    \/ \E key \in Coords, text \in RegTexts : RegisterSchema(key, text)
    \/ \E key \in Coords, text \in RegTexts : RegisterSchemaVersion(key, text)
    \/ \E text \in RegTexts : FindArtifactByContent(text)
    \/ \E key \in Coords : GetLatestSchema(key)
    \/ \E global_id \in GlobalIds : GetSchemaByGlobalId(global_id)
    \/ Reset
    \/ Return

SpecRegistration == InitRegistry /\ [][NextRegistration]_vars

\* asyncio.gather over register_schema calls on one InMemoryClient
InitConcurrent ==
    /\ wire = NoWire
    /\ client = "InMemoryClient"
    /\ SerializerInit
    /\ cache_schemas = TRUE
    /\ schemas = InitialTables.schemas
    /\ artifacts = InitialTables.artifacts
    /\ schema_to_global_id = InitialTables.schema_to_global_id
    /\ reg_result = NoRegResult
    /\ tasks = [t \in Tasks |-> NewTask]
    /\ _lock = {}
    /\ assigned = Assign(EmptyMap, InitialTables.schemas)
    /\ ApicurioInit

NextConcurrent ==
    \/ \E t \in Tasks, key \in Coords, text \in ConcurrentTexts : TaskCall(t, key, text)
    \/ \E t \in Tasks : TaskAcquire(t)
    \/ \E t \in Tasks : TaskCheck(t)
    \/ \E t \in Tasks : TaskWrite(t)

SpecConcurrent == InitConcurrent /\ [][NextConcurrent]_vars

(***************************************************************************)
(* Concurrent operations of every kind on one InMemoryClient.  A call is   *)
(* cut at its only await, the lock; the body under the lock has no await   *)
(* and calls no other operation, so it is one step, and leaving the body,  *)
(* by return or by raise, releases the lock.                               *)
(***************************************************************************)
Operations == {"register_schema", "find_artifact_by_content", "get_latest_schema",
               "get_schema_by_global_id", "reset"}

\* the arguments an operation reads; the others stay unset
OperationCalls ==
    {[op |-> "register_schema", key |-> <<"default", "user">>, text |-> text,
      global_id |-> NoId] : text \in ClassTexts}
    \cup {[op |-> "find_artifact_by_content", key |-> NoCoord, text |-> avro_schema("R"),
           global_id |-> NoId]}
    \cup {[op |-> "get_latest_schema", key |-> <<"default", "user">>, text |-> NoText,
           global_id |-> NoId]}
    \cup {[op |-> "get_schema_by_global_id", key |-> NoCoord, text |-> NoText,
           global_id |-> 1]}
    \cup {[op |-> "reset", key |-> NoCoord, text |-> NoText, global_id |-> NoId]}

\* the operation up to async with self._lock
OpCall(t, c) ==
    /\ tasks[t].pc = "new"
    /\ tasks' = [tasks EXCEPT ![t] = [NewTask EXCEPT !.pc = "normalized", !.op = c.op,
                                                     !.key = c.key, !.text = c.text,
                                                     !.global_id = c.global_id]]
    /\ UNCHANGED <<wire, apicurio_vars, client, serializer_vars, registry_vars, _lock,
                   assigned>>

\* what the body of the operation does with the tables
OpResult(task, t) ==
    IF task.op = "register_schema" THEN InMemory_register_schema(t, task.key, task.text)
    ELSE IF task.op = "find_artifact_by_content"
    THEN InMemory_find_artifact_by_content(t, task.text)
    ELSE IF task.op = "get_latest_schema" THEN InMemory_get_latest_schema(t, task.key)
    ELSE IF task.op = "get_schema_by_global_id"
    THEN InMemory_get_schema_by_global_id(t, task.global_id)
    ELSE InMemory_reset(t)

\* a body that leaves without releasing the lock
OpBody_keeps_lock(t) ==
    /\ tasks[t].pc = "locked"
    /\ LET r == OpResult(tasks[t], CurrentTables)
       IN /\ schemas' = r.tables.schemas
          /\ artifacts' = r.tables.artifacts
          /\ schema_to_global_id' = r.tables.schema_to_global_id
          /\ tasks' = [tasks EXCEPT ![t] = [NewTask EXCEPT !.pc = "returned",
                                                           !.ret = r.id]]
          /\ assigned' = Assign(assigned, r.tables.schemas)
    /\ UNCHANGED _lock
    /\ UNCHANGED <<wire, apicurio_vars, client, serializer_vars, reg_result>>

\* the body under the lock, its return or raise, and the release of the lock
OpBody(t) ==
    /\ tasks[t].pc = "locked"
    /\ LET r == OpResult(tasks[t], CurrentTables)
       IN /\ schemas' = r.tables.schemas
          /\ artifacts' = r.tables.artifacts
          /\ schema_to_global_id' = r.tables.schema_to_global_id
          /\ tasks' = [tasks EXCEPT ![t] = [NewTask EXCEPT !.pc = "returned",
                                                           !.ret = r.id]]
          /\ assigned' = Assign(assigned, r.tables.schemas)
    /\ _lock' = _lock \ {t}
    /\ UNCHANGED <<wire, apicurio_vars, client, serializer_vars, reg_result>>

NextOperations ==
    \/ \E t \in Tasks, c \in OperationCalls : OpCall(t, c)
    \/ \E t \in Tasks : TaskAcquire(t)
    \/ \E t \in Tasks : OpBody(t)

\* the event loop runs every task that can run, and a task waiting for a free
\* lock is woken
SpecOperations ==
    /\ InitConcurrent
    /\ [][NextOperations]_vars
    /\ \A t \in Tasks : WF_vars(TaskAcquire(t)) /\ WF_vars(OpBody(t))

\* ApicurioClient.find_artifact_by_fingerprint over every listing
InitScan ==
    /\ wire = NoWire
    /\ client = "ApicurioClient"
    /\ SerializerInit
    /\ cache_schemas = TRUE
    /\ RegistryInit
    /\ ApicurioInit

NextScan ==
    \/ /\ scan.pc = "idle"
       /\ \E text \in ScanTexts, listing \in SeqsUpTo(Candidates, MaxListing) :
             ScanStart(text, TRUE, listing)
    \/ \E text \in ScanTexts : ScanStart(text, FALSE, <<>>)
    \/ ScanCandidate
    \/ ScanReturn

SpecScan == InitScan /\ [][NextScan]_vars

\* ApicurioClient.get_schema_by_global_id called by two callers
NextFetch ==
    \/ \E c \in Callers, global_id \in GlobalIds : FetchCall(c, global_id)
    \/ \E c \in Callers, response \in Responses : FetchResponse(c, response)

SpecFetch == InitScan /\ [][NextFetch]_vars

InitWire ==
    /\ WireInit
    /\ client = "none"
    /\ SerializerInit
    /\ cache_schemas = TRUE
    /\ RegistryInit
    /\ ApicurioInit

NextWire ==
    \/ WireEncode /\ UNCHANGED <<client, serializer_vars, registry_vars, task_vars, assigned,
                              apicurio_vars>>
    \/ WireDecode /\ UNCHANGED <<client, serializer_vars, registry_vars, task_vars, assigned,
                              apicurio_vars>>

SpecWire == InitWire /\ [][NextWire]_vars

(***************************************************************************)
(* Properties of the wire format (SpecWire).                               *)
(***************************************************************************)

\* C2: for every schema id in 0..2^32-1 and every payload, the empty one
\* included, decode(encode(id, payload)) returns exactly (id, payload)
WireRoundTrip ==
    wire.phase = "roundtrip" =>
        /\ wire.decoded.ok
        /\ wire.decoded.schema_id = wire.schema_id
        /\ wire.decoded.payload = wire.payload

\* the largest id with the empty payload has made the round trip
WireRoundTripOfLargestId ==
    /\ wire.phase = "roundtrip"
    /\ wire.schema_id = U32(65535, 65535)
    /\ wire.payload = <<>>
    /\ wire.message = <<0, 255, 255, 255, 255>>
    /\ wire.decoded.ok

\* C3: decode fails with InvalidWireFormatError exactly when the message is
\* shorter than 5 bytes or its first byte is not 0x00; every other message
\* decodes to bytes 1-4 read big-endian and the rest as payload, and
\* [0x00,0,0,0,1] gives (1, empty)
WireDecodeFailsExactly ==
    wire.phase = "decoded" =>
        LET m == wire.message
            malformed == Len(m) < 5 \/ m[1] # 0
        IN /\ wire.decoded.ok = ~malformed
           /\ malformed => wire.decoded.error = "InvalidWireFormatError"
           /\ ~malformed =>
                 /\ wire.decoded.schema_id.hi = m[2] * 256 + m[3]
                 /\ wire.decoded.schema_id.lo = m[4] * 256 + m[5]
                 /\ wire.decoded.payload = [i \in 1..(Len(m) - 5) |-> m[i + 5]]
                 /\ Len(m) = 5 => wire.decoded.payload = <<>>
           /\ m = <<0, 0, 0, 0, 1>> => /\ FromU32(wire.decoded.schema_id) = 1
                                       /\ wire.decoded.payload = <<>>

\* the header-only message [0x00,0,0,0,1] has been decoded
WireDecodedHeaderOnly ==
    /\ wire.phase = "decoded"
    /\ wire.message = <<0, 0, 0, 0, 1>>
    /\ wire.decoded = WireOk(U32(0, 1), <<>>)

(***************************************************************************)
(* Properties of AvroSerializer over any registry client (Spec).           *)
(***************************************************************************)
SerializeDone == pc = "done" /\ call.op = "serialize"

DeserializeDone == pc = "done" /\ call.op \in {"deserialize", "deserialize_with_schema"}

BigEndian4(n) == <<(n \div 16777216) % 256, (n \div 65536) % 256, (n \div 256) % 256, n % 256>>

\* C4: every message a successful serialize returns is the byte 0x00, the
\* 4-byte big-endian schema id and the unmodified Avro payload: its length is
\* 5 plus the payload length and its first byte is 0x00
SerializedIsFramed ==
    (SerializeDone /\ result.status = "ok") =>
        /\ call.avro_payload = schemaless_writer(
               _get_parsed_schema(cache_schemas, parsed_schema_cache, call.use_id,
                                  call.registry_schema).parsed,
               asdict(call.obj)).bytes
        /\ result.bytes = <<0>> \o BigEndian4(call.use_id) \o call.avro_payload
        /\ Len(result.bytes) = 5 + Len(call.avro_payload)
        /\ result.bytes[1] = 0

\* {id: 7, name: "x"} has been serialized under id 2
SerializedFramedUnderId2 ==
    /\ SerializeDone
    /\ call.obj = ObjR1
    /\ call.schema_id = 2
    /\ result.status = "ok"
    /\ result.bytes = <<0, 0, 0, 0, 2, 14, 2, 120>>

CallsOf(fn) == {i \in 1..Len(calls) : calls[i].fn = fn}

ReturnedNoCoordinate(c) == c.answered /\ c.raised = "none" /\ c.ret_coord = NoCoord

\* C5: in serialize without a schema id find_artifact_by_content is called
\* first; find_artifact_by_fingerprint is called only if the content search
\* returned no coordinate; get_latest_schema is then called exactly once, with
\* the coordinate that was found, and the message is framed with the id that
\* call returned
AutoLookupOrder ==
    (call.op = "serialize" /\ call.schema_id = NoId) =>
        /\ Len(calls) >= 1
        /\ calls[1].fn = "find_artifact_by_content"
        /\ calls[1].text = avro_schema(call.obj.cls)
        /\ \A i \in CallsOf("find_artifact_by_fingerprint") :
              /\ i = 2
              /\ ReturnedNoCoordinate(calls[1])
              /\ calls[i].text = avro_schema(call.obj.cls)
        /\ \A i \in CallsOf("get_latest_schema") :
              /\ CallsOf("get_latest_schema") = {i}
              /\ i = 2 \/ (i = 3 /\ calls[2].fn = "find_artifact_by_fingerprint")
              /\ calls[i - 1].raised = "none"
              /\ calls[i - 1].ret_coord # NoCoord
              /\ calls[i].coord = calls[i - 1].ret_coord
        /\ \A i \in CallsOf("get_schema_by_global_id") :
              /\ i = Len(calls)
              /\ calls[i - 1].fn = "get_latest_schema"
              /\ calls[i].id = calls[i - 1].ret_id
        /\ (pc = "done" /\ result.status = "ok") =>
              \E i \in CallsOf("get_latest_schema") :
                  /\ calls[i].raised = "none"
                  /\ SubSeq(result.bytes, 1, 5) = <<0>> \o BigEndian4(calls[i].ret_id)

\* an automatic lookup found the coordinate by fingerprint and framed the
\* message with the id get_latest_schema returned
AutoLookupByFingerprintFramed ==
    /\ SerializeDone
    /\ call.schema_id = NoId
    /\ Len(calls) = 4
    /\ calls[2].fn = "find_artifact_by_fingerprint"
    /\ calls[3].fn = "get_latest_schema"
    /\ calls[3].ret_id = 2
    /\ result.status = "ok"
    /\ SubSeq(result.bytes, 1, 5) = <<0, 0, 0, 0, 2>>

BothSearchesFoundNothing ==
    /\ Len(calls) >= 2
    /\ calls[1].fn = "find_artifact_by_content"
    /\ ReturnedNoCoordinate(calls[1])
    /\ calls[2].fn = "find_artifact_by_fingerprint"
    /\ ReturnedNoCoordinate(calls[2])

\* C6: when serialize is called without a schema id and both searches return
\* no coordinate, it fails with SchemaMatchError itself, not wrapped in a
\* SerializationError, and calls neither get_latest_schema nor a registration
NoMatchRaisesSchemaMatchError ==
    (call.op = "serialize" /\ call.schema_id = NoId /\ BothSearchesFoundNothing) =>
        /\ pc = "done"
        /\ result.status = "error"
        /\ result.error.type = "SchemaMatchError"
        /\ result.error.cause = "none"
        /\ result.bytes = <<>>
        /\ \A i \in 1..Len(calls) :
              calls[i].fn \notin {"get_latest_schema", "get_schema_by_global_id",
                                  "register_schema", "register_schema_version"}

\* an automatic lookup has ended after both searches found nothing
NoMatchHappened ==
    /\ SerializeDone
    /\ call.schema_id = NoId
    /\ BothSearchesFoundNothing
    /\ result.error.type = "SchemaMatchError"

\* the schema the call in flight validated against: the cached parse when the
\* cache holds one, the parse of the fetched document otherwise
UsedSchema ==
    _get_parsed_schema(cache_schemas, parsed_schema_cache, call.use_id, call.registry_schema)

ValueMismatches ==
    /\ SerializeDone
    /\ call.registry_schema # NoRegDoc
    /\ UsedSchema.ok
    /\ ~schemaless_writer(UsedSchema.parsed, asdict(call.obj)).ok

LastCallRaised == Len(calls) >= 1 /\ calls[Len(calls)].raised # "none"

\* C9: every failure inside serialize that is neither a SchemaMismatchError
\* nor a SchemaMatchError reaches the caller as SerializationError, never as
\* the raw registry error; the message names the schema id when one was given
\* and the automatic schema lookup otherwise
OtherFailuresAreSerializationError ==
    (SerializeDone /\ result.status = "error") =>
        /\ result.error.type \in {"SerializationError", "SchemaMismatchError",
                                  "SchemaMatchError"}
        /\ LastCallRaised =>
              /\ result.error.type = "SerializationError"
              /\ result.error.cause = calls[Len(calls)].raised
        /\ result.error.type = "SerializationError" =>
              /\ result.error.cause \notin {"none", "SchemaMismatchError", "SchemaMatchError"}
              /\ call.schema_id # NoId =>
                    /\ result.error.msg = "Failed to serialize object with schema ID"
                    /\ result.error.id = call.schema_id
              /\ call.schema_id = NoId =>
                    result.error.msg = "Failed to serialize object with automatic schema lookup"

\* the registry did not know id 1
SchemaNotFoundWrapped ==
    /\ SerializeDone
    /\ call.schema_id = 1
    /\ LastCallRaised
    /\ calls[Len(calls)].raised = "SchemaNotFoundError"
    /\ result.error.type = "SerializationError"
    /\ result.error.id = 1

\* C10: every failure in deserialize and deserialize_with_schema reaches the
\* caller as DeserializationError, wrapped exactly once: a failure that is
\* already a DeserializationError is propagated unchanged
DeserializeFailuresWrappedOnce ==
    (DeserializeDone /\ result.status = "error") =>
        /\ result.error.type = "DeserializationError"
        /\ result.error.cause # "DeserializationError"
        /\ result.obj = NoObj
        /\ result.error.cause = "none" =>
              /\ result.error.msg = "Invalid JSON schema for ID"
              /\ result.error.id = call.use_id
              /\ call.registry_schema.shape = "wrapped"
              /\ ~json_loads(call.registry_schema.text).ok
        /\ LastCallRaised => result.error.cause = calls[Len(calls)].raised
        /\ ~ConfluentWireFormat_decode(call.message).ok =>
              result.error.cause = "InvalidWireFormatError"

\* a schema text that is no JSON stopped deserialize_with_schema
InvalidSchemaTextPropagated ==
    /\ DeserializeDone
    /\ call.op = "deserialize_with_schema"
    /\ call.registry_schema = Wrapped(InvalidText)
    /\ result.error = Err("DeserializationError", "Invalid JSON schema for ID",
                          call.use_id, "none")

(***************************************************************************)
(* Properties of AvroSerializer over InMemoryClient (SpecInMemory).        *)
(***************************************************************************)

\* the parsed-schema cache is off, or holds for the id nothing but the parse
\* of the document now registered under it
CacheAgrees(cls, global_id) ==
    (cache_schemas /\ global_id \in DOMAIN parsed_schema_cache) =>
        parsed_schema_cache[global_id] = avro_schema_to_python(cls)

SerializedOwnSchema ==
    /\ SerializeDone
    /\ call.schema_id # NoId
    /\ Registered(call.obj.cls, call.schema_id)

DeserializedOwnSchema ==
    /\ pc = "done"
    /\ call.op = "deserialize"
    /\ call.origin # NoObj
    /\ call.target = call.origin.cls
    /\ Registered(call.origin.cls, call.origin_id)

\* C1 as stated: for every value v and every schema id under which v's own
\* schema is registered, serialize(v, id) succeeds and
\* deserialize(serialize(v, id), T), T the type of v, returns v
RoundTrip ==
    /\ SerializedOwnSchema => result.status = "ok"
    /\ DeserializedOwnSchema => (result.status = "ok" /\ result.obj = call.origin)

\* C1: for every value v and every schema id under which v's own schema is
\* registered, deserialize(serialize(v, id), T), T the type of v, returns a
\* value equal to v field for field, provided the serializer's parsed-schema
\* cache holds no other schema for that id (it keeps what it parsed before a
\* reset() of the registry gave the id to another schema)
RoundTripWhenCacheAgrees ==
    /\ (SerializedOwnSchema /\ CacheAgrees(call.obj.cls, call.schema_id)) =>
          result.status = "ok"
    /\ (DeserializedOwnSchema /\ CacheAgrees(call.origin.cls, call.origin_id)) =>
          (result.status = "ok" /\ result.obj = call.origin)

\* {id: -1, name: ""} has made the round trip under id 2 through the cache
RoundTripHappened ==
    /\ DeserializedOwnSchema
    /\ cache_schemas
    /\ call.origin = ObjR2
    /\ call.origin_id = 2
    /\ call.message = <<0, 0, 0, 0, 2, 1, 0>>
    /\ result.obj = ObjR2

\* serialize without a schema id over the empty InMemoryClient has ended in a
\* SerializationError that wraps the AttributeError of the missing method
EmptyInMemoryLookupWrapped ==
    /\ SerializeDone
    /\ call.schema_id = NoId
    /\ CurrentTables = EmptyTables
    /\ result.error.type = "SerializationError"
    /\ result.error.cause = "AttributeError"
    /\ result.error.msg = "Failed to serialize object with automatic schema lookup"

\* C7: over an empty InMemoryClient, serialize of any value without a schema
\* id raises SchemaMatchError and leaves the tables unchanged; InMemoryClient
\* offers every operation the automatic lookup calls
EmptyInMemoryRaisesSchemaMatchError ==
    (SerializeDone /\ call.schema_id = NoId /\ CurrentTables = EmptyTables) =>
        /\ result.status = "error"
        /\ result.error.type = "SchemaMatchError"
        /\ \A fn \in {"find_artifact_by_content", "find_artifact_by_fingerprint",
                      "get_latest_schema", "get_schema_by_global_id"} :
              HasMethod(client, fn)

(***************************************************************************)
(* The parsed-schema cache (Spec).                                         *)
(***************************************************************************)

\* a fetch of an id whose parsed schema the cache already holds is pending
FetchOfCachedId ==
    /\ pc = "get_schema"
    /\ cache_schemas
    /\ call.use_id \in DOMAIN parsed_schema_cache

LastCall == calls[Len(calls)]

\* what a serialize that meets cached returns or raises
SerializedFrom(cached, res) ==
    LET w == schemaless_writer(cached, asdict(call.obj))
    IN IF w.ok
       THEN /\ res.status = "ok"
            /\ res.bytes = ConfluentWireFormat_encode(ToU32(call.use_id), w.bytes)
       ELSE res.error.type = "SchemaMismatchError"

\* what a deserialize that meets cached returns or raises
DeserializedFrom(cached, res) ==
    LET d == IF call.op = "deserialize"
             THEN schemaless_reader_projected(call.avro_payload, cached,
                                              avro_schema_to_python(call.target))
             ELSE schemaless_reader(call.avro_payload, cached)
        o == parse_obj(call.target, d.datum)
    IN IF d.ok /\ o.ok
       THEN res.status = "ok" /\ res.obj = o.obj
       ELSE /\ res.status = "error"
            /\ res.error.cause = "Exception"

\* C11 as stated: with caching enabled, once an id has been fetched and parsed,
\* no later serialize or deserialize call issues get_schema_by_global_id for it
CachedIdIsNotFetched ==
    \A i \in CallsOf("get_schema_by_global_id") :
        ~(cache_schemas /\ ~calls[i].answered /\ calls[i].id \in DOMAIN parsed_schema_cache)

\* C11: with caching enabled, once an id has been fetched and parsed, every
\* later serialize or deserialize call for that id reuses the cached parsed
\* schema, whatever document the registry client returns, and leaves the
\* cache as it was; the call still issues get_schema_by_global_id for the id,
\* and fails when that call fails
CachedSchemaIsReused ==
    [][FetchOfCachedId =>
          /\ LastCall.fn = "get_schema_by_global_id"
          /\ LastCall.id = call.use_id
          /\ ~LastCall.answered
          /\ pc' = "done"
          /\ calls'[Len(calls')].answered
          /\ parsed_schema_cache' = parsed_schema_cache
          /\ calls'[Len(calls')].raised # "none" => result'.status = "error"
          /\ calls'[Len(calls')].raised = "none" =>
                IF call.op = "serialize"
                THEN SerializedFrom(parsed_schema_cache[call.use_id], result')
                ELSE DeserializedFrom(parsed_schema_cache[call.use_id], result')]_vars

\* a serializer that holds R for id 1 was handed another document for id 1
\* and serialized {id: 7, name: "x"} by the cached schema
CachedSchemaWonOverFetched ==
    /\ SerializeDone
    /\ cache_schemas
    /\ call.use_id = 1
    /\ call.registry_schema = Bare(DocS)
    /\ parsed_schema_cache[1] = DocR
    /\ call.obj = ObjR1
    /\ result.bytes = <<0, 0, 0, 0, 1, 14, 2, 120>>

\* C12: with caching enabled a cache entry is inserted at most once per id
\* and never replaced or removed afterwards, and _get_parsed_schema for an id
\* in the cache returns the cached schema whatever document is passed in
CacheEntriesAreFinal ==
    /\ [](cache_schemas =>
            \A id \in DOMAIN parsed_schema_cache, d \in RegDocs :
                _get_parsed_schema(cache_schemas, parsed_schema_cache, id, d)
                    = ParsedOk(parsed_schema_cache[id], parsed_schema_cache))
    /\ [][cache_schemas =>
            \A id \in DOMAIN parsed_schema_cache :
                /\ id \in DOMAIN parsed_schema_cache'
                /\ parsed_schema_cache'[id] = parsed_schema_cache[id]]_vars

\* the cache holds both ids, and a deserialize for id 2 that was handed a
\* text that is no JSON has used the cached entry
CacheEntryOutlivedOtherDocument ==
    /\ DeserializeDone
    /\ cache_schemas
    /\ DOMAIN parsed_schema_cache = {1, 2}
    /\ call.use_id = 2
    /\ parsed_schema_cache[2] = DocU
    /\ call.registry_schema = Wrapped(InvalidText)
    /\ result.status = "ok"
    /\ result.obj = ObjU1

\* the call in flight got a document from get_schema_by_global_id
GotDocument ==
    /\ pc = "done"
    /\ call.op \in {"serialize", "deserialize", "deserialize_with_schema"}
    /\ call.registry_schema # NoRegDoc

\* C13: with caching disabled the parsed-schema cache is empty after any
\* sequence of serializer operations, and every call fetches the schema from
\* the registry client and parses the document it got
UncachedAlwaysFetchesAndParses ==
    ~cache_schemas =>
        /\ parsed_schema_cache = EmptyMap
        /\ GotDocument =>
              /\ LastCall.fn = "get_schema_by_global_id"
              /\ LastCall.id = call.use_id
              /\ LastCall.answered
              /\ LET d == call.registry_schema
                     text_ok == d.shape # "wrapped" \/ d.text.valid
                     parsed == IF d.shape = "wrapped" THEN d.text.doc ELSE d.doc
                 IN IF ~text_ok
                    THEN /\ result.status = "error"
                         /\ \/ result.error.msg = "Invalid JSON schema for ID"
                            \/ result.error.cause = "DeserializationError"
                    ELSE IF call.op = "serialize"
                         THEN SerializedFrom(parsed, result)
                         ELSE DeserializedFrom(parsed, result)

\* without a cache, the message serialize returned for {id: 7, name: "x"} has
\* been deserialized by the document fetched for it, a {"schema": text} wrapper
UncachedRoundTripThroughWrapper ==
    /\ DeserializeDone
    /\ ~cache_schemas
    /\ parsed_schema_cache = EmptyMap
    /\ call.origin = ObjR1
    /\ call.registry_schema = Wrapped(json_dumps(DocR))
    /\ result.obj = ObjR1

(***************************************************************************)
(* deserialize_with_schema (Spec).                                         *)
(***************************************************************************)

\* the payload of the call in flight read with the schema the call used and
\* nothing else
ReadWithWriterSchema == schemaless_reader(call.avro_payload, UsedSchema.parsed)

\* C14: a deserialize_with_schema that got a document for the id embedded in
\* the message decodes the payload with the writer schema alone, so it returns
\* a value exactly when the plain read and parse_obj succeed, and next to the
\* value it returns the document as the registry client returned it: neither
\* the parsed schema nor the schema of the target class.
DeserializeWithSchemaReturnsFetched ==
    (GotDocument /\ call.op = "deserialize_with_schema") =>
        /\ call.use_id = FromU32(ConfluentWireFormat_decode(call.message).schema_id)
        /\ LastCall.fn = "get_schema_by_global_id"
        /\ LastCall.id = call.use_id
        /\ LastCall.answered /\ LastCall.raised = "none"
        /\ IF UsedSchema.ok /\ ReadWithWriterSchema.ok
              /\ parse_obj(call.target, ReadWithWriterSchema.datum).ok
           THEN /\ result.status = "ok"
                /\ result.obj = parse_obj(call.target, ReadWithWriterSchema.datum).obj
                /\ result.schema = call.registry_schema
           ELSE /\ result.status = "error"
                /\ result.schema = NoRegDoc

\* a record written as R is returned as a U, which resolution against the
\* schema of U would have refused, next to the wrapped text of R's schema
WriterSchemaReturnedForOtherTarget ==
    /\ DeserializeDone
    /\ call.op = "deserialize_with_schema"
    /\ call.target = "U"
    /\ call.registry_schema = Wrapped(json_dumps(DocR))
    /\ ~schemaless_reader_projected(call.avro_payload, DocR, DocU).ok
    /\ result.status = "ok"
    /\ result.obj = [cls |-> "U", data |-> [id |-> IntV(7)]]
    /\ result.schema = Wrapped(json_dumps(DocR))
    /\ result.schema # Bare(DocR)
    /\ result.schema # Bare(DocU)

(***************************************************************************)
(* AvroSerializer.register_schema (SpecInMemory).                          *)
(***************************************************************************)

\* C15: AvroSerializer.register_schema can be called with every object and
\* coordinate, and every such call fails with NotImplementedError, unwrapped,
\* without a call to the registry client and with the registry tables and the
\* parsed-schema cache left as they were.
RegisterSchemaIsNotImplemented ==
    /\ [](pc = "idle" =>
            \A obj \in Objs, key \in Coords :
               ENABLED AvroSerializer_register_schema(obj, key[1], key[2]))
    /\ [][call'.op = "register_schema" =>
            /\ pc' = "done"
            /\ result'.status = "error"
            /\ result'.error.type = "NotImplementedError"
            /\ result'.error.cause = "none"
            /\ calls' = <<>>
            /\ schemas' = schemas
            /\ artifacts' = artifacts
            /\ schema_to_global_id' = schema_to_global_id
            /\ parsed_schema_cache' = parsed_schema_cache]_vars

\* register_schema has failed over a registry that holds a schema and a cache
\* that holds its parse, for a class the registry does not know
RegisterSchemaRefusedUnknownClass ==
    /\ pc = "done"
    /\ call.op = "register_schema"
    /\ call.obj = ObjU1
    /\ call.coord = <<"other", "user">>
    /\ result.error.type = "NotImplementedError"
    /\ calls = <<>>
    /\ DOMAIN schemas = {1}
    /\ schemas[1] = DocR
    /\ DOMAIN parsed_schema_cache = {1}
    /\ ~HasArtifact(artifacts, <<"other", "user">>)

(***************************************************************************)
(* InMemoryClient.register_schema (SpecRegistration).                      *)
(***************************************************************************)

\* two schema texts are texts of one document
ContentEqual(a, b) ==
    /\ json_loads(a).ok
    /\ json_loads(b).ok
    /\ json_loads(a).doc = json_loads(b).doc

\* the versions of key in arts whose text is content-equal to text
VersionsWithContent(arts, key, text) ==
    {k \in 1..Len(VersionsOf(arts, key)) :
        ContentEqual(VersionsOf(arts, key)[k].schema_content, text)}

\* the step is a call of register_schema
RegisterSchemaStep == pc = "idle" /\ reg_result'.op = "register_schema"

TablesUnchanged ==
    /\ schemas' = schemas
    /\ artifacts' = artifacts
    /\ schema_to_global_id' = schema_to_global_id

\* C16: register_schema of a text for a coordinate that already has a version
\* with content-equal text returns the id of that version, which is the id the
\* first registration stored and returned, and leaves the three tables as they
\* were.
RegisterSchemaIsIdempotent ==
    [][(/\ RegisterSchemaStep
        /\ VersionsWithContent(artifacts, reg_result'.key, reg_result'.text) # {})
       => /\ reg_result'.ok
          /\ \A k \in VersionsWithContent(artifacts, reg_result'.key, reg_result'.text) :
                reg_result'.id = VersionsOf(artifacts, reg_result'.key)[k].global_id
          /\ TablesUnchanged]_vars

\* the schema of R, registered once for a coordinate, has been registered again
\* for it under another spelling of its text
RegisteredAgainInOtherSpelling ==
    /\ pc = "done"
    /\ reg_result.op = "register_schema"
    /\ reg_result.key = <<"default", "user">>
    /\ reg_result.text = Text(DocR, KeysVariant, FALSE)
    /\ reg_result.text # avro_schema("R")
    /\ reg_result.id = 1
    /\ artifacts = <<[key |-> <<"default", "user">>,
                      versions |-> <<SchemaVersion(1, 1, avro_schema("R"))>>]>>
    /\ DOMAIN schemas = {1}

\* C17: register_schema of a text whose content has a version under another
\* coordinate and none under the given one returns the id of that version,
\* appends one version with that id, the next version number and the given text
\* to the given coordinate, leaves every other coordinate alone and adds nothing
\* to the id-to-schema table or to the content-to-id table.
KnownContentBecomesNewVersion ==
    [][(/\ RegisterSchemaStep
        /\ VersionsWithContent(artifacts, reg_result'.key, reg_result'.text) = {}
        /\ \E other \in Coords \ {reg_result'.key} :
              VersionsWithContent(artifacts, other, reg_result'.text) # {})
       => /\ reg_result'.ok
          /\ \A other \in Coords \ {reg_result'.key} :
                /\ \A k \in VersionsWithContent(artifacts, other, reg_result'.text) :
                      reg_result'.id = VersionsOf(artifacts, other)[k].global_id
                /\ VersionsOf(artifacts', other) = VersionsOf(artifacts, other)
          /\ VersionsOf(artifacts', reg_result'.key)
                = Append(VersionsOf(artifacts, reg_result'.key),
                         SchemaVersion(Len(VersionsOf(artifacts, reg_result'.key)) + 1,
                                       reg_result'.id, reg_result'.text))
          /\ schemas' = schemas
          /\ schema_to_global_id' = schema_to_global_id]_vars

\* the schema of R, which has id 2 under default/user, has become version 2 of
\* other/user, whose version 1 is the schema of U
KnownContentIsSecondVersion ==
    /\ pc = "done"
    /\ reg_result.op = "register_schema"
    /\ reg_result.key = <<"other", "user">>
    /\ reg_result.id = 2
    /\ VersionsOf(artifacts, <<"default", "user">>) = <<SchemaVersion(1, 2, avro_schema("R"))>>
    /\ VersionsOf(artifacts, <<"other", "user">>)
          = <<SchemaVersion(1, 1, avro_schema("U")),
              SchemaVersion(2, 2, Text(DocR, KeysVariant, FALSE))>>
    /\ DOMAIN schemas = {1, 2}
    /\ DOMAIN schema_to_global_id = {json_dumps_sorted(DocR), json_dumps_sorted(DocU)}

(***************************************************************************)
(* Concurrent registration (SpecConcurrent).                               *)
(***************************************************************************)
HasReturned(t) == tasks[t].pc = "returned"

\* the ids the returned calls got for contents the registry did not hold when
\* the calls were made
FreshIds ==
    {tasks[t].ret : t \in {u \in Tasks : /\ HasReturned(u)
                                         /\ ~ContentEqual(tasks[u].text, avro_schema("U"))}}

FirstFreeId == SetMax(DOMAIN InitialTables.schemas) + 1

\* C18: however the concurrent register_schema calls interleave, two calls that
\* have returned got the same id exactly when their texts are content-equal, no
\* two ids name one document, a content the registry held keeps its id, and the
\* ids given to new contents are the consecutive integers from the next free id.
ConcurrentRegistrationIsSerial ==
    /\ \A t, u \in Tasks :
          (HasReturned(t) /\ HasReturned(u)) =>
              (ContentEqual(tasks[t].text, tasks[u].text) <=> tasks[t].ret = tasks[u].ret)
    /\ \A i, j \in DOMAIN schemas : schemas[i] = schemas[j] => i = j
    /\ \A t \in Tasks :
          (HasReturned(t) /\ ContentEqual(tasks[t].text, avro_schema("U"))) =>
              tasks[t].ret = InitialTables.schema_to_global_id[
                                 _normalize_schema(avro_schema("U")).text]
    /\ FreshIds = FirstFreeId .. (FirstFreeId + Cardinality(FreshIds) - 1)

\* three calls have returned: two spellings of R for two coordinates got id 2,
\* the schema S got id 3
ConcurrentCallsReturned ==
    /\ \A t \in Tasks : HasReturned(t)
    /\ tasks[1].text = avro_schema("R") /\ tasks[1].ret = 2
    /\ tasks[2].text = Text(DocR, KeysVariant, FALSE) /\ tasks[2].ret = 2
    /\ tasks[1].key # tasks[2].key
    /\ tasks[3].text = json_dumps(DocS) /\ tasks[3].ret = 3
    /\ DOMAIN schemas = {1, 2, 3}

(***************************************************************************)
(* Schema ids of InMemoryClient (SpecRegistry).                            *)
(***************************************************************************)

\* C19 as stated: after any sequence of register_schema,
\* register_schema_version, add_schema and reset, every id that was ever
\* assigned is positive and has named one document only.
IdsNameOneDocument ==
    \A id \in DOMAIN assigned : id >= 1 /\ Cardinality(assigned[id]) = 1

\* the step is a call of register_schema or register_schema_version
RegistrationStep ==
    pc = "idle" /\ reg_result'.op \in {"register_schema", "register_schema_version"}

\* C19: register_schema and register_schema_version never change or remove the
\* document of an id in the table, and an id they assign is positive, larger
\* than every id in the table, and the id they return; so between two calls of
\* reset or add_schema no id is assigned twice.  reset empties the table and
\* numbering starts again at 1, add_schema stores under the id it is given.
RegistrationNeverReusesIds ==
    [][RegistrationStep =>
          /\ \A id \in DOMAIN schemas :
                id \in DOMAIN schemas' /\ schemas'[id] = schemas[id]
          /\ \A id \in DOMAIN schemas' \ DOMAIN schemas :
                /\ id >= 1
                /\ \A old \in DOMAIN schemas : id > old
                /\ reg_result'.ok
                /\ reg_result'.id = id
          /\ reg_result'.ok => reg_result'.id \in DOMAIN schemas']_vars

\* register_schema has given the schema of R the id 2, above the id 1 of the
\* schema of U, in a registry whose id 1 named the schema of R before a reset
IdAssignedAfterReset ==
    /\ pc = "done"
    /\ reg_result.op = "register_schema"
    /\ reg_result.id = 2
    /\ DOMAIN schemas = {1, 2}
    /\ schemas[1] = DocU
    /\ schemas[2] = DocR
    /\ assigned[1] = {DocR, DocU}
    /\ assigned[2] = {DocR}

(***************************************************************************)
(* serialize with an explicit schema id (Spec).                            *)
(***************************************************************************)

\* C20: a serialize call that was given a schema id makes one client call,
\* get_schema_by_global_id with that id, from its start to its end, so none of
\* find_artifact_by_content, find_artifact_by_fingerprint and get_latest_schema;
\* and the bytes it returns start with the magic byte and that id as four
\* big-endian bytes.
ExplicitIdSkipsLookup ==
    (call.op = "serialize" /\ call.schema_id # NoId) =>
        /\ Len(calls) = 1
        /\ calls[1].fn = "get_schema_by_global_id"
        /\ calls[1].id = call.schema_id
        /\ call.use_id = call.schema_id
        /\ call.match_result = NoCoord
        /\ pc \in {"get_schema", "done"}
        /\ (pc = "done" /\ result.status = "ok") =>
              /\ Len(result.bytes) >= HEADER_SIZE
              /\ result.bytes[1] = MAGIC_BYTE
              /\ SubSeq(result.bytes, 2, HEADER_SIZE) = BigEndian4(call.schema_id)

\* a U value has been serialized under the id 2 it was given, with one call
ExplicitId2Serialized ==
    /\ SerializeDone
    /\ call.schema_id = 2
    /\ call.obj = ObjU1
    /\ Len(calls) = 1
    /\ calls[1].fn = "get_schema_by_global_id"
    /\ calls[1].id = 2
    /\ calls[1].answered
    /\ result.status = "ok"
    /\ result.bytes = <<0, 0, 0, 0, 2, 128, 1>>

(***************************************************************************)
(* Canonical schema texts (SpecRegistration).                              *)
(***************************************************************************)

\* two texts of one document that differ in the order of the keys, in the
\* whitespace, or in both
DifferInSpellingOnly(a, b) ==
    /\ a.valid /\ b.valid
    /\ a.doc = b.doc
    /\ a # b

\* the coordinates of arts that have a version content-equal to text
CoordsWithContent(arts, text) ==
    {key \in Coords : VersionsWithContent(arts, key, text) # {}}

\* C21: texts that differ only in key order and whitespace have one canonical
\* string; register_schema returns for a text the id of every version, under
\* any coordinate, whose text is content-equal to it; and
\* find_artifact_by_content of a text returns a coordinate that has a
\* content-equal version whenever there is one, and nothing otherwise.
SpellingsAreOneContent ==
    /\ [](\A a, b \in RegTexts \cup {Text(DocR, KeysSorted, TRUE)} :
            DifferInSpellingOnly(a, b) =>
                _normalize_schema(a).text = _normalize_schema(b).text)
    /\ [][(RegisterSchemaStep /\ reg_result'.text.valid) =>
            /\ reg_result'.ok
            /\ \A key \in Coords :
                  \A k \in VersionsWithContent(artifacts', key, reg_result'.text) :
                     VersionsOf(artifacts', key)[k].global_id = reg_result'.id]_vars
    /\ [][(/\ pc = "idle"
           /\ reg_result'.op = "find_artifact_by_content"
           /\ reg_result'.text.valid) =>
            /\ reg_result'.ok
            /\ IF CoordsWithContent(artifacts, reg_result'.text) = {}
               THEN reg_result'.coord = NoCoord
               ELSE reg_result'.coord \in CoordsWithContent(artifacts, reg_result'.text)
            /\ TablesUnchanged]_vars

\* the schema of R was registered as the class writes it and has been found
\* under another key order and without whitespace
FoundUnderOtherSpelling ==
    /\ pc = "done"
    /\ reg_result.op = "find_artifact_by_content"
    /\ reg_result.text = Text(DocR, KeysVariant, FALSE)
    /\ reg_result.coord = <<"other", "user">>
    /\ artifacts = <<[key |-> <<"other", "user">>,
                      versions |-> <<SchemaVersion(1, 1, avro_schema("R"))>>]>>
    /\ avro_schema("R").order # KeysVariant
    /\ avro_schema("R").ws

(***************************************************************************)
(* The two shapes of registry document (Spec).                             *)
(***************************************************************************)

\* the schema a registry document spells: the mapping itself, or what its text
\* says
Spelled(registry_schema) ==
    IF registry_schema.shape = "bare" THEN registry_schema.doc
    ELSE registry_schema.text.doc

\* the step hands a fetched document to a parse that the cache does not answer
ParseStep ==
    /\ pc = "get_schema"
    /\ call'.registry_schema # NoRegDoc
    /\ ~(cache_schemas /\ call.use_id \in DOMAIN parsed_schema_cache)

\* C22: _get_parsed_schema gives for a bare schema mapping and for a wrapper
\* around any text of that schema the same parsed schema, the mapping itself,
\* and for a wrapper around text that is no JSON the DeserializationError
\* "Invalid JSON schema" with the id; a call that parses a fetched document
\* then encodes or decodes with the schema the document spells, whichever
\* shape it has, and a deserialize that meets the invalid text ends with that
\* error.
BothShapesParseAlike ==
    /\ [](\A id \in GlobalIds, d \in {DocR, DocU, DocS} :
          \A text \in {json_dumps(d), json_dumps_sorted(d), Text(d, KeysVariant, FALSE)} :
            /\ _get_parsed_schema(FALSE, EmptyMap, id, Bare(d)).ok
            /\ _get_parsed_schema(FALSE, EmptyMap, id, Bare(d)).parsed = d
            /\ _get_parsed_schema(FALSE, EmptyMap, id, Wrapped(text))
                  = _get_parsed_schema(FALSE, EmptyMap, id, Bare(d))
            /\ _get_parsed_schema(TRUE, EmptyMap, id, Wrapped(text))
                  = _get_parsed_schema(TRUE, EmptyMap, id, Bare(d))
            /\ _get_parsed_schema(TRUE, EmptyMap, id, Wrapped(InvalidText))
                  = ParsedFail(Err("DeserializationError", "Invalid JSON schema for ID",
                                   id, "none"), EmptyMap))
    /\ [][ParseStep =>
            LET d == call'.registry_schema
            IN IF d.shape = "wrapped" /\ ~d.text.valid
               THEN /\ result'.status = "error"
                    /\ parsed_schema_cache' = parsed_schema_cache
                    /\ call.op # "serialize" =>
                          result'.error = Err("DeserializationError",
                                              "Invalid JSON schema for ID", call.use_id,
                                              "none")
               ELSE /\ IF call.op = "serialize"
                       THEN SerializedFrom(Spelled(d), result')
                       ELSE DeserializedFrom(Spelled(d), result')
                    /\ cache_schemas => parsed_schema_cache'[call.use_id] = Spelled(d)]_vars

\* an R value has been serialized against a wrapper around the text of R's
\* schema, and the cache holds the schema the text spells
SerializedThroughWrapper ==
    /\ SerializeDone
    /\ cache_schemas
    /\ call.obj = ObjR2
    /\ call.registry_schema = Wrapped(json_dumps(DocR))
    /\ result.status = "ok"
    /\ parsed_schema_cache[call.use_id] = DocR
    /\ DOMAIN parsed_schema_cache = {call.use_id}

(***************************************************************************)
(* The read operations of InMemoryClient (SpecRegistration).               *)
(***************************************************************************)

\* C23: get_latest_schema of a coordinate with versions returns the id of the
\* last version in its list and the document of that id, which is the document
\* the version's text spells, and a version that a registration has just
\* appended is the one get_latest_schema returns; for a coordinate without
\* versions it raises SchemaNotFoundError; get_schema_by_global_id raises
\* SchemaNotFoundError for an id that was never assigned and returns the
\* document of an id in the table; none of these changes a table.
LatestIsLastAppended ==
    /\ [][(pc = "idle" /\ reg_result'.op = "get_latest_schema") =>
            LET versions == VersionsOf(artifacts, reg_result'.key)
            IN /\ TablesUnchanged
               /\ IF versions = <<>>
                  THEN ~reg_result'.ok /\ reg_result'.error = "SchemaNotFoundError"
                  ELSE /\ reg_result'.ok
                       /\ reg_result'.id = versions[Len(versions)].global_id
                       /\ reg_result'.doc = Bare(schemas[reg_result'.id])
                       /\ reg_result'.doc.doc
                            = json_loads(versions[Len(versions)].schema_content).doc]_vars
    /\ [][(/\ RegistrationStep
           /\ Len(VersionsOf(artifacts', reg_result'.key))
                 > Len(VersionsOf(artifacts, reg_result'.key))) =>
            LET latest == InMemory_get_latest_schema(
                              Tables(schemas', artifacts', schema_to_global_id'),
                              reg_result'.key)
            IN /\ latest.ok
               /\ latest.id = reg_result'.id
               /\ ContentEqual(json_dumps(latest.doc.doc), reg_result'.text)]_vars
    /\ [][(pc = "idle" /\ reg_result'.op = "get_schema_by_global_id") =>
            /\ TablesUnchanged
            /\ reg_result'.global_id \notin DOMAIN assigned =>
                  ~reg_result'.ok /\ reg_result'.error = "SchemaNotFoundError"
            /\ reg_result'.global_id \in DOMAIN schemas =>
                  /\ reg_result'.ok
                  /\ reg_result'.doc = Bare(schemas[reg_result'.global_id])]_vars

\* get_latest_schema has returned the second of two versions of default/user
LatestOfTwoVersions ==
    /\ pc = "done"
    /\ reg_result.op = "get_latest_schema"
    /\ reg_result.key = <<"default", "user">>
    /\ reg_result.id = 2
    /\ reg_result.doc = Bare(DocU)
    /\ VersionsOf(artifacts, <<"default", "user">>)
          = <<SchemaVersion(1, 1, avro_schema("R")), SchemaVersion(2, 2, avro_schema("U"))>>
    /\ VersionsOf(artifacts, <<"other", "user">>) = <<>>

(***************************************************************************)
(* ApicurioClient.find_artifact_by_fingerprint (SpecScan).                 *)
(***************************************************************************)
\* the candidate's latest schema can be fetched and read, and is the target's
\* record up to the spelling of its text
CandidateMatches(target, artifact) ==
    /\ artifact.latest # NoRegDoc
    /\ IF artifact.latest.shape = "wrapped"
       THEN artifact.latest.text.valid /\ artifact.latest.text.doc = target
       ELSE artifact.latest.doc = target

CandidateFails(artifact) ==
    \/ artifact.latest = NoRegDoc
    \/ artifact.latest.shape = "wrapped" /\ ~artifact.latest.text.valid

\* C24: a scan that got its listing returns the coordinate of the first
\* candidate whose latest schema can be fetched and has the target's
\* fingerprint, whatever candidates before it failed, and returns None only
\* when no candidate of the listing is such a one; no candidate's failure
\* becomes the failure of the scan.
FailingCandidatesAreSkipped ==
    (scan.pc = "done" /\ scan.artifacts # <<>>) =>
        LET matching == {i \in 1..Len(scan.artifacts) :
                            CandidateMatches(scan.target, scan.artifacts[i])}
        IN /\ scan.error = "none"
           /\ (scan.ret = NoCoord) <=> (matching = {})
           /\ matching # {} =>
                 /\ scan.i \in matching
                 /\ \A j \in matching : scan.i <= j
                 /\ scan.ret = scan.artifacts[scan.i].key

\* the scan has returned the third candidate after one whose fetch failed and
\* one whose text is no JSON
MatchAfterFailingCandidates ==
    /\ scan.pc = "done"
    /\ scan.target = DocR
    /\ Len(scan.artifacts) = 3
    /\ scan.artifacts[1] = [key |-> <<"default", "user">>, latest |-> NoRegDoc]
    /\ scan.artifacts[2] = [key |-> <<"default", "user">>, latest |-> Wrapped(InvalidText)]
    /\ scan.artifacts[3] = [key |-> <<"other", "user">>,
                            latest |-> Wrapped(Text(DocR, KeysSorted, FALSE))]
    /\ CandidateFails(scan.artifacts[1]) /\ CandidateFails(scan.artifacts[2])
    /\ scan.ret = <<"other", "user">>

(***************************************************************************)
(* Concurrent operations on InMemoryClient (SpecOperations).               *)
(***************************************************************************)
\* C25: from some moment on no operation is in flight: every operation that a
\* caller has started, of whatever kind and among whatever other callers, has
\* returned or raised (a call ends once and its caller starts no other).
OperationsComplete ==
    <>[](\A t \in Tasks : tasks[t].pc \in {"new", "returned"})

\* a read has completed, a registration holds the lock, and a reset waits
CompletedWhileOthersWait ==
    /\ tasks[1].pc = "returned" /\ tasks[1].ret = 1
    /\ tasks[2].pc = "locked" /\ tasks[2].op = "register_schema"
    /\ tasks[3].pc = "normalized" /\ tasks[3].op = "reset"
    /\ _lock = {2}

(***************************************************************************)
(* ApicurioClient.get_schema_by_global_id (SpecFetch).                     *)
(***************************************************************************)
\* caller c starts a call in this step
FetchStarts(c) == fetches[c].pc # "requested" /\ fetches'[c] # fetches[c]

\* caller c gets its response in this step
FetchEnds(c) == fetches[c].pc = "requested" /\ fetches'[c].pc = "returned"

\* C26: a call for a cached id returns the cached document at once, sends no
\* request and leaves the cache alone, and a call sends a request only for an
\* id that is not cached; the cache changes only when a request is answered
\* with a document, by the entry of that id becoming that document; a call that
\* fails leaves the cache as it is; no entry is ever removed.
OnlySuccessfulFetchesAreCached ==
    /\ [][\A c \in Callers : FetchStarts(c) =>
             LET global_id == fetches'[c].global_id
             IN IF global_id \in DOMAIN _schema_cache
                THEN /\ fetches'[c].pc = "returned"
                     /\ fetches'[c].error = "none"
                     /\ fetches'[c].ret = _schema_cache[global_id]
                     /\ ~fetches'[c].requested
                     /\ http_requests' = http_requests
                     /\ _schema_cache' = _schema_cache
                ELSE /\ fetches'[c].pc = "requested"
                     /\ http_requests' = http_requests + 1
                     /\ _schema_cache' = _schema_cache]_vars
    /\ [][\A c \in Callers : FetchEnds(c) =>
             IF fetches'[c].error = "none"
             THEN _schema_cache' = (fetches[c].global_id :> fetches'[c].ret) @@ _schema_cache
             ELSE _schema_cache' = _schema_cache]_vars
    /\ [][_schema_cache' # _schema_cache =>
             \E c \in Callers : FetchEnds(c) /\ fetches'[c].error = "none"]_vars
    /\ [][DOMAIN _schema_cache \subseteq DOMAIN _schema_cache']_vars

\* id 1 is cached and b's call for it was answered from the cache; a's call
\* for id 2 was answered 404 and id 2 is not cached
CachedAfterFailures ==
    /\ http_requests = 2
    /\ DOMAIN _schema_cache = {1}
    /\ _schema_cache[1] = Wrapped(InvalidText)
    /\ fetches["a"] = [NoFetch EXCEPT !.pc = "returned", !.global_id = 2,
                                      !.error = "SchemaNotFoundError", !.requested = TRUE]
    /\ fetches["b"] = [NoFetch EXCEPT !.pc = "returned", !.global_id = 1,
                                      !.ret = Wrapped(InvalidText)]

(***************************************************************************)
(* InMemoryClient.register_schema_version (SpecRegistration).              *)
(***************************************************************************)
\* C27: register_schema_version of a JSON text for a coordinate without an
\* artifact raises AvroCurioError and leaves the three tables as they were,
\* whatever the other coordinates hold; for a coordinate with an artifact and a
\* text whose document no id names, it returns an id that was not in the table,
\* stores the document under it, and appends to the coordinate's list the
\* version with the next number, that id and the text, which is then what
\* get_latest_schema returns; the other coordinates keep their lists.
VersionNeedsExistingArtifact ==
    [][(/\ pc = "idle"
        /\ reg_result'.op = "register_schema_version"
        /\ json_loads(reg_result'.text).ok) =>
          LET key == reg_result'.key
              text == reg_result'.text
              doc == json_loads(text).doc
              versions == VersionsOf(artifacts, key)
              id == reg_result'.id
          IN /\ ~HasArtifact(artifacts, key) =>
                   /\ ~reg_result'.ok
                   /\ reg_result'.error = "AvroCurioError"
                   /\ TablesUnchanged
             /\ (HasArtifact(artifacts, key) /\ \A g \in DOMAIN schemas : schemas[g] # doc) =>
                   /\ reg_result'.ok
                   /\ id \notin DOMAIN schemas
                   /\ schemas' = (id :> doc) @@ schemas
                   /\ VersionsOf(artifacts', key)
                         = Append(versions, SchemaVersion(Len(versions) + 1, id, text))
                   /\ InMemory_get_latest_schema(
                          Tables(schemas', artifacts', schema_to_global_id'), key).id = id
                   /\ \A other \in Coords \ {key} :
                         VersionsOf(artifacts', other) = VersionsOf(artifacts, other)]_vars

\* register_schema_version of R for other/user was refused while default/user
\* holds R
VersionRefusedForMissingArtifact ==
    /\ pc = "done"
    /\ reg_result.op = "register_schema_version"
    /\ reg_result.key = <<"other", "user">>
    /\ reg_result.text = avro_schema("R")
    /\ reg_result.error = "AvroCurioError"
    /\ ~HasArtifact(artifacts, <<"other", "user">>)
    /\ VersionsOf(artifacts, <<"default", "user">>) = <<SchemaVersion(1, 1, avro_schema("R"))>>

(***************************************************************************)
(* The automatic lookup over InMemoryClient (SpecLookup).                  *)
(***************************************************************************)
\* serialize without a schema id has returned a message
LookupSerialized == SerializeDone /\ call.schema_id = NoId /\ result.status = "ok"

\* C28: whenever serialize without a schema id returns a message, the id in
\* its header is an id of the table whose document is the document of the
\* value's own schema.
LookupSerializesOwnSchema ==
    LookupSerialized =>
        /\ SubSeq(result.bytes, 1, 5) = <<0>> \o BigEndian4(call.use_id)
        /\ call.use_id \in DOMAIN schemas
        /\ ContentEqual(json_dumps(schemas[call.use_id]), avro_schema(call.obj.cls))

\* default/user holds R as its first and U as its second version, and an R
\* value was serialized without a schema id under the id of U, its name left
\* out of the payload
SerializedUnderLatestVersion ==
    /\ LookupSerialized
    /\ call.obj = ObjR1
    /\ VersionsOf(artifacts, <<"default", "user">>)
          = <<SchemaVersion(1, 1, avro_schema("R")), SchemaVersion(2, 2, avro_schema("U"))>>
    /\ schemas[2] = DocU
    /\ result.bytes = <<0, 0, 0, 0, 2>> \o schemaless_writer(DocU, asdict(ObjR1)).bytes
    /\ result.bytes # <<0, 0, 0, 0, 2>> \o schemaless_writer(DocR, asdict(ObjR1)).bytes

(***************************************************************************)
(* The tables of InMemoryClient (SpecRegistry).                            *)
(***************************************************************************)
\* C29: in every state every artifact has at least one version, its versions
\* are numbered 1, 2, ... in list order, every version's id is in the
\* id-to-schema table, no coordinate is listed twice, and get_latest_schema of
\* every coordinate that has an artifact returns the id and the document of
\* its last version.
VersionListsAreSound ==
    /\ \A i \in 1..Len(artifacts) :
          /\ artifacts[i].versions # <<>>
          /\ \A k \in 1..Len(artifacts[i].versions) :
                /\ artifacts[i].versions[k].version = k
                /\ artifacts[i].versions[k].global_id \in DOMAIN schemas
          /\ \A j \in 1..Len(artifacts) : artifacts[j].key = artifacts[i].key => j = i
          /\ LET latest == InMemory_get_latest_schema(CurrentTables, artifacts[i].key)
                 last == artifacts[i].versions[Len(artifacts[i].versions)]
             IN /\ latest.ok
                /\ latest.id = last.global_id
                /\ latest.doc = Bare(schemas[last.global_id])

\* add_schema has put id 1 a second time into default/user, after a
\* registration under other/user
AddedSchemaIsListed ==
    /\ pc = "done"
    /\ reg_result.op = "add_schema"
    /\ Len(artifacts) = 2
    /\ artifacts[1].key = <<"other", "user">>
    /\ Len(VersionsOf(artifacts, <<"default", "user">>)) = 2
    /\ VersionsOf(artifacts, <<"default", "user">>)[2] = SchemaVersion(2, 1, json_dumps(DocU))
    /\ schemas[1] = DocU

(***************************************************************************)
(* Failures and the parsed-schema cache (Spec).                            *)
(***************************************************************************)
\* the step ends a call with a failure that comes before the parsed schema
\* is there: the message is not framed, the registry raised, or the fetched
\* text is no JSON and the cache has no entry for the id
FailsBeforeParsed ==
    /\ pc # "done" /\ pc' = "done"
    /\ result'.status = "error"
    /\ \/ result'.error.cause = "InvalidWireFormatError"
       \/ Len(calls') >= 1 /\ calls'[Len(calls')].raised # "none"
       \/ /\ call'.registry_schema.shape = "wrapped"
          /\ ~call'.registry_schema.text.valid
          /\ ~(cache_schemas /\ call'.use_id \in DOMAIN parsed_schema_cache)

\* C30: a call that fails before the parsed schema is there leaves the
\* parsed-schema cache as it was; the cache changes only with caching enabled,
\* in the step that parses a document the registry returned for an id without
\* an entry, that document being a mapping or a wrapper around JSON text, and
\* the change is the one new entry of that id with the schema the document
\* spells.
FailuresLeaveCacheAlone ==
    /\ [][FailsBeforeParsed => parsed_schema_cache' = parsed_schema_cache]_vars
    /\ [][parsed_schema_cache' # parsed_schema_cache =>
            /\ cache_schemas
            /\ ParseStep
            /\ calls'[Len(calls')].fn = "get_schema_by_global_id"
            /\ calls'[Len(calls')].raised = "none"
            /\ call'.registry_schema.shape = "wrapped" => call'.registry_schema.text.valid
            /\ parsed_schema_cache'
                  = (call.use_id :> Spelled(call'.registry_schema)) @@ parsed_schema_cache]_vars

\* a deserialize for id 2 met text that is no JSON, after a serialize under
\* id 1: the cache holds the entry of id 1 and none of id 2
InvalidTextLeftNoEntry ==
    /\ DeserializeDone
    /\ cache_schemas
    /\ call.use_id = 2
    /\ call.registry_schema = Wrapped(InvalidText)
    /\ result.error.type = "DeserializationError"
    /\ DOMAIN parsed_schema_cache = {1}

====
